---------------------------- MODULE Spec2Model ----------------------------
(***************************************************************************)
(* Ingestion-to-retrieval core of the document question-answering backend. *)
(*                                                                         *)
(* The module holds four specifications over one set of variables:        *)
(*   SpecNorm   normalize_entity_name applied to bounded names             *)
(*   SpecMerge  _merge_and_rerank applied to bounded result lists          *)
(*   Spec       the vector store and the graph store under ingestion,      *)
(*              entity storage and hybrid retrieval                        *)
(*   SpecPipe   process_document_pipeline and its progress record          *)
(* Text is a sequence of one-character strings.  Scores are integers in    *)
(* units of 1/ScoreOne.                                                    *)
(***************************************************************************)
EXTENDS Integers, Sequences, FiniteSets, TLC

VARIABLES
    \* SpecNorm
    name,            \* the argument of normalize_entity_name
    normOnce,        \* normalize_entity_name(name)
    normTwice,       \* normalize_entity_name(normalize_entity_name(name))
    normPc,          \* "input" | "done"
    \* SpecMerge
    vector_chunks,   \* argument of _merge_and_rerank
    graph_chunks,    \* argument of _merge_and_rerank
    max_results,     \* argument of _merge_and_rerank
    mergeResult,     \* its return value
    mergePc,         \* "input" | "done"
    \* Spec: the two stores
    documents,       \* graph store: Document nodes [id, user_id]
    chunkNodes,      \* graph store: Chunk nodes [id, document_id]
    entityNodes,     \* graph store: Entity nodes [nid, normalized_name, type, name]
    appearsIn,       \* graph store: APPEARS_IN edges [rid, from, to]
    relatesTo,       \* graph store: RELATES_TO edges [rid, from, to, type]
    points,          \* vector store: points [id, document_id, user_id]
    nextUuid,        \* the next fresh uuid4 (document and chunk ids)
    nextNid,         \* the next fresh internal id of the graph store
    storeCalls,      \* number of direct store_entities_in_neo4j calls made
    processed,       \* ids of the chunks step 5b of the pipeline has handled
    storeLog,        \* the direct store_entities_in_neo4j calls made so far
    lastOp,          \* the call in progress, its arguments and result
    pipelinePc,      \* position of process_document_pipeline
    task,            \* the document's progress record in the task tracker
    chunk_data,      \* the chunks of the document being ingested
    chunkTask,       \* position of every process_chunk task of the batch
    results,         \* results list of extract_entities_batch
    completed_count, \* completed_count of extract_entities_batch
    semaphore,       \* free permits of the batch's semaphore
    workers,         \* position and inputs of every concurrent ingestion
    trackerKeys,     \* ids of the documents that have a progress record
    users,           \* registered users [id, email]
    issued,          \* the tokens the server has issued
    refresh_store,   \* Redis keys refresh:{user_id}:{jti} with their hashes
    blocklist,       \* Redis keys blocklist:{jti}
    nextJti,         \* the next fresh jti
    refreshReqs      \* the /refresh requests in progress and their responses

normVars == <<name, normOnce, normTwice, normPc>>
mergeVars == <<vector_chunks, graph_chunks, max_results, mergeResult, mergePc>>
graphVars == <<entityNodes, appearsIn, relatesTo, nextNid>>
storeVars ==
    <<documents, chunkNodes, points, nextUuid, graphVars, storeCalls, processed,
      storeLog, lastOp>>
pipeVars ==
    <<pipelinePc, task, chunk_data, chunkTask, results, completed_count, semaphore>>
workerVars == <<workers>>
trackVars == <<trackerKeys>>
authVars == <<users, issued, refresh_store, blocklist, nextJti, refreshReqs>>
vars == <<normVars, mergeVars, storeVars, pipeVars, workerVars, trackVars, authVars>>

Min(a, b) == IF a <= b THEN a ELSE b
Max(a, b) == IF a >= b THEN a ELSE b

\* All sequences over S of length at most n.
SeqsUpTo(S, n) == UNION {[1..k -> S] : k \in 0..n}

(***************************************************************************)
(* Text helpers: Python str.strip / str.lower / str.rstrip / re.sub.       *)
(***************************************************************************)
Whitespace == {" "}
TrailingPunct == {".", ",", ";", ":", "!", "?"}

\* \w of the regular expression: within the modelled alphabet every
\* character that is neither whitespace nor punctuation is a letter.
IsWordChar(ch) == ch \notin (Whitespace \cup TrailingPunct)

LowerChar(ch) ==
    CASE ch = "A" -> "a"
      [] ch = "B" -> "b"
      [] ch = "C" -> "c"
      [] ch = "O" -> "o"
      [] OTHER -> ch

Lower(s) == [i \in 1..Len(s) |-> LowerChar(s[i])]

RECURSIVE LStripSet(_, _)
LStripSet(s, set) ==
    IF s # <<>> /\ Head(s) \in set THEN LStripSet(Tail(s), set) ELSE s

RECURSIVE RStripSet(_, _)
RStripSet(s, set) ==
    IF s # <<>> /\ s[Len(s)] \in set
    THEN RStripSet(SubSeq(s, 1, Len(s) - 1), set)
    ELSE s

Strip(s) == RStripSet(LStripSet(s, Whitespace), Whitespace)

\* re.sub(r"\s+", " ", s): every maximal run of whitespace becomes one space.
RECURSIVE CollapseWhitespace(_)
CollapseWhitespace(s) ==
    IF s = <<>> THEN <<>>
    ELSE IF Head(s) \in Whitespace
         THEN <<" ">> \o CollapseWhitespace(LStripSet(s, Whitespace))
         ELSE <<Head(s)>> \o CollapseWhitespace(Tail(s))

(***************************************************************************)
(* _SUFFIXES: \s*\b(inc\.?|corp\.?|ltd\.?|llc\.?|co\.?|plc\.?|gmbh|        *)
(*            s\.a\.?|n\.v\.?)\s*$   (case-insensitive)                    *)
(***************************************************************************)
SuffixDotOptional ==
    { <<"i", "n", "c">>, <<"c", "o", "r", "p">>, <<"l", "t", "d">>,
      <<"l", "l", "c">>, <<"c", "o">>, <<"p", "l", "c">>,
      <<"s", ".", "a">>, <<"n", ".", "v">> }
SuffixNoDot == { <<"g", "m", "b", "h">> }

\* The strings the alternation of _SUFFIXES can match.
_SUFFIXES ==
    SuffixDotOptional \cup {w \o <<".">> : w \in SuffixDotOptional} \cup SuffixNoDot

AllIn(s, lo, hi, set) == \A i \in lo..hi : s[i] \in set

\* The pattern matches s from position p to the end of s.
SuffixMatchAt(s, p) ==
    \E q \in p..Len(s) :
        /\ AllIn(s, p, q - 1, Whitespace)
        /\ (q = 1 \/ ~IsWordChar(s[q - 1]))            \* \b before a letter
        /\ \E w \in _SUFFIXES :
              /\ q + Len(w) - 1 <= Len(s)
              /\ SubSeq(Lower(s), q, q + Len(w) - 1) = w
              /\ AllIn(s, q + Len(w), Len(s), Whitespace)

\* _SUFFIXES.sub("", s): the leftmost match is removed; it reaches the end
\* of s, so there is no second match.
SuffixSub(s) ==
    LET starts == {p \in 1..Len(s) : SuffixMatchAt(s, p)}
    IN  IF starts = {} THEN s
        ELSE SubSeq(s, 1, (CHOOSE p \in starts : \A r \in starts : p <= r) - 1)

normalize_entity_name(s) ==
    LET lowered == Lower(Strip(s))
        nosuffix == SuffixSub(lowered)
        nopunct == RStripSet(nosuffix, TrailingPunct)
    IN  Strip(CollapseWhitespace(nopunct))

(***************************************************************************)
(* SpecNorm                                                                *)
(***************************************************************************)
NameAlphabet == {"a", "c", "o", "C", " ", "."}
MaxNameLen == 5

NormIdle ==
    /\ name = <<>> /\ normOnce = <<>> /\ normTwice = <<>> /\ normPc = "idle"

NormInit ==
    /\ name \in SeqsUpTo(NameAlphabet, MaxNameLen)
    /\ normOnce = <<>>
    /\ normTwice = <<>>
    /\ normPc = "input"

Normalize ==
    /\ normPc = "input"
    /\ normOnce' = normalize_entity_name(name)
    /\ normTwice' = normalize_entity_name(normalize_entity_name(name))
    /\ normPc' = "done"
    /\ UNCHANGED name

(***************************************************************************)
(* _merge_and_rerank                                                       *)
(***************************************************************************)
ScoreOne == 10000        \* the score 1.0
BaseScore == 7000        \* the score 0.7 of a graph-retrieved chunk

\* existing["score"] = min(existing["score"] * 1.2, 1.0)
Boost(score) == Min((score * 12) \div 10, ScoreOne)

\* An entry that replaces the score of the vector search.
VectorEntryRescored(chunk) ==
    [retrieval_method |-> "vector", score |-> BaseScore] @@ chunk

\* merged[chunk_id] = {**chunk, "retrieval_method": "vector"}
VectorEntry(chunk) == [retrieval_method |-> "vector"] @@ chunk

IndexOfId(merged, id) ==
    IF \E i \in 1..Len(merged) : merged[i].id = id
    THEN CHOOSE i \in 1..Len(merged) : merged[i].id = id
    ELSE 0

\* The first loop: a dict keyed by chunk id, in insertion order.
RECURSIVE AddVector(_, _)
AddVector(merged, chunks) ==
    IF chunks = <<>> THEN merged
    ELSE LET chunk == Head(chunks)
             i == IndexOfId(merged, chunk.id)
         IN  AddVector(IF i = 0 THEN Append(merged, VectorEntry(chunk))
                       ELSE [merged EXCEPT ![i] = VectorEntry(chunk)],
                       Tail(chunks))

\* One iteration of the second loop.
MergeGraphChunk(merged, chunk) ==
    LET i == IndexOfId(merged, chunk.id)
    IN  IF i # 0
        THEN [merged EXCEPT ![i] =
                 [score |-> Boost(merged[i].score),
                  retrieval_method |-> "hybrid",
                  matched_entity |-> chunk.matched_entity,
                  entity_type |-> chunk.entity_type] @@ merged[i]]
        ELSE Append(merged, chunk)

RECURSIVE AddGraph(_, _)
AddGraph(merged, chunks) ==
    IF chunks = <<>> THEN merged
    ELSE AddGraph(MergeGraphChunk(merged, Head(chunks)), Tail(chunks))

\* sorted(..., key=score, reverse=True): stable, descending.
RECURSIVE InsertByScore(_, _)
InsertByScore(sorted, chunk) ==
    IF sorted = <<>> THEN <<chunk>>
    ELSE IF Head(sorted).score >= chunk.score
         THEN <<Head(sorted)>> \o InsertByScore(Tail(sorted), chunk)
         ELSE <<chunk>> \o sorted

RECURSIVE SortByScoreDesc(_, _)
SortByScoreDesc(sorted, rest) ==
    IF rest = <<>> THEN sorted
    ELSE SortByScoreDesc(InsertByScore(sorted, Head(rest)), Tail(rest))

MergedDict(vchunks, gchunks) == AddGraph(AddVector(<<>>, vchunks), gchunks)

\* The merge without the final sort.
MergeUnsorted(vchunks, gchunks, maxres) ==
    LET result == MergedDict(vchunks, gchunks)
    IN  SubSeq(result, 1, Min(maxres, Len(result)))

_merge_and_rerank(vchunks, gchunks, maxres) ==
    LET result == SortByScoreDesc(<<>>, MergedDict(vchunks, gchunks))
    IN  SubSeq(result, 1, Min(maxres, Len(result)))

(***************************************************************************)
(* SpecMerge                                                               *)
(***************************************************************************)
MergeIds == 1..3
MergeEntities == {"e1", "e2"}
SimilarityScores == {5000, 7500, 9000}
MaxVector == 2
MaxGraph == 2
MaxResults == 3

DistinctIds(chunks) ==
    \A i, j \in 1..Len(chunks) : chunks[i].id = chunks[j].id => i = j
DistinctRows(chunks) ==
    \A i, j \in 1..Len(chunks) : chunks[i] = chunks[j] => i = j
NonIncreasing(chunks) ==
    \A i \in 1..Len(chunks) - 1 : chunks[i].score >= chunks[i + 1].score

\* What search_similar_chunks can return: one row per point, ranked.
VectorLists ==
    {l \in SeqsUpTo([id : MergeIds, score : SimilarityScores], MaxVector) :
        DistinctIds(l) /\ NonIncreasing(l)}

\* What get_entity_chunks_for_query can return: one row per matched
\* (entity, chunk) pair, each with the base score.
GraphLists ==
    {l \in SeqsUpTo([id : MergeIds, score : {BaseScore},
                     retrieval_method : {"graph_entity_lookup"},
                     matched_entity : MergeEntities,
                     entity_type : {"ORGANIZATION"}], MaxGraph) :
        DistinctRows(l)}

MergeIdle ==
    /\ vector_chunks = <<>> /\ graph_chunks = <<>> /\ max_results = 0
    /\ mergeResult = <<>> /\ mergePc = "idle"

MergeInit ==
    /\ vector_chunks \in VectorLists
    /\ graph_chunks \in GraphLists
    /\ max_results \in 0..MaxResults
    /\ mergeResult = <<>>
    /\ mergePc = "input"

Merge ==
    /\ mergePc = "input"
    /\ mergeResult' = _merge_and_rerank(vector_chunks, graph_chunks, max_results)
    /\ mergePc' = "done"
    /\ UNCHANGED <<vector_chunks, graph_chunks, max_results>>

(***************************************************************************)
(* extract_entities_from_chunk: validation of the LLM's JSON answer        *)
(***************************************************************************)
\* Entity loop: strip the name, skip empty names, normalize, and keep the
\* first entity of every (normalized_name, type) key.
RECURSIVE ValidateEntities(_, _)
ValidateEntities(raw, acc) ==
    IF raw = <<>> THEN acc
    ELSE LET stripped == Strip(Head(raw).name)
             normalized == normalize_entity_name(stripped)
             seen == {<<acc[i].normalized_name, acc[i].type>> : i \in 1..Len(acc)}
         IN  IF stripped = <<>> \/ <<normalized, Head(raw).type>> \in seen
             THEN ValidateEntities(Tail(raw), acc)
             ELSE ValidateEntities(Tail(raw),
                     Append(acc, [name |-> stripped, type |-> Head(raw).type,
                                  normalized_name |-> normalized]))

\* Relationship loop: keep a relationship when both normalized endpoint
\* names are names of extracted entities.
RECURSIVE ValidateRelationships(_, _)
ValidateRelationships(raw, entity_names_normalized) ==
    IF raw = <<>> THEN <<>>
    ELSE LET source_norm == normalize_entity_name(Strip(Head(raw).source))
             target_norm == normalize_entity_name(Strip(Head(raw).target))
             rest == ValidateRelationships(Tail(raw), entity_names_normalized)
         IN  IF source_norm \in entity_names_normalized
                /\ target_norm \in entity_names_normalized
             THEN <<[source_normalized |-> source_norm,
                     target_normalized |-> target_norm,
                     type |-> Head(raw).type]>> \o rest
             ELSE rest

EmptyExtraction == [entities |-> <<>>, relationships |-> <<>>]

\* response is the parsed JSON of the LLM; ok is FALSE when the call or the
\* validation raised (the except branch).
extract_entities_from_chunk(response) ==
    IF ~response.ok THEN EmptyExtraction
    ELSE LET entities == ValidateEntities(response.entities, <<>>)
             names == {entities[i].normalized_name : i \in 1..Len(entities)}
         IN  [entities |-> entities,
              relationships |-> ValidateRelationships(response.relationships, names)]

(***************************************************************************)
(* store_entities_in_neo4j: the two Cypher statements, on a graph          *)
(* g = [entityNodes, appearsIn, relatesTo, nextNid]                        *)
(***************************************************************************)
MinOf(S) == CHOOSE x \in S : \A y \in S : x <= y

\* MERGE (e)-[:APPEARS_IN]->(c) for every bound node e.
RECURSIVE MergeAppearsIn(_, _, _)
MergeAppearsIn(g, nids, chunk_id) ==
    IF nids = {} THEN g
    ELSE LET n == MinOf(nids)
             exists == \E r \in g.appearsIn : r.from = n /\ r.to = chunk_id
             g1 == IF exists THEN g
                   ELSE [g EXCEPT
                           !.appearsIn = @ \cup {[rid |-> g.nextNid, from |-> n,
                                                  to |-> chunk_id]},
                           !.nextNid = @ + 1]
         IN  MergeAppearsIn(g1, nids \ {n}, chunk_id)

\* CREATE in place of MERGE: no existing node is ever bound.
EntityCreateMatches(g, entity) == {}

\* The nodes MERGE (e:Entity {normalized_name: .., type: ..}) binds.
EntityMergeMatches(g, entity) ==
    {n \in g.entityNodes : n.normalized_name = entity.normalized_name
                           /\ n.type = entity.type}

\* One row of UNWIND $entities: MERGE the node, then, if the chunk exists,
\* MERGE its APPEARS_IN edge.
MergeEntityRow(g, entity, chunk_id, chunkExists) ==
    LET matches == EntityMergeMatches(g, entity)
        created == [nid |-> g.nextNid,
                    normalized_name |-> entity.normalized_name,
                    type |-> entity.type, name |-> entity.name]
        g1 == IF matches = {}
              THEN [g EXCEPT !.entityNodes = @ \cup {created}, !.nextNid = @ + 1]
              ELSE g
        bound == IF matches = {} THEN {created.nid} ELSE {n.nid : n \in matches}
    IN  IF chunkExists THEN MergeAppearsIn(g1, bound, chunk_id) ELSE g1

RECURSIVE StoreEntityRows(_, _, _, _)
StoreEntityRows(g, entities, chunk_id, chunkExists) ==
    IF entities = <<>> THEN g
    ELSE StoreEntityRows(MergeEntityRow(g, Head(entities), chunk_id, chunkExists),
                         Tail(entities), chunk_id, chunkExists)

\* MATCH (source:Entity {normalized_name: rel.source_normalized})
SourceMatches(g, rel) ==
    {n.nid : n \in {m \in g.entityNodes : m.normalized_name = rel.source_normalized}}
\* MATCH (target:Entity {normalized_name: rel.target_normalized})
TargetMatches(g, rel) ==
    {n.nid : n \in {m \in g.entityNodes : m.normalized_name = rel.target_normalized}}

\* MERGE (source)-[r:RELATES_TO {type: rel.type}]->(target) for every
\* (source, target) row.
RECURSIVE MergeRelatesTo(_, _, _)
MergeRelatesTo(g, pairs, type) ==
    IF pairs = {} THEN g
    ELSE LET pr == CHOOSE q \in pairs :
                      \A o \in pairs : q[1] < o[1] \/ (q[1] = o[1] /\ q[2] <= o[2])
             exists == \E r \in g.relatesTo :
                          r.from = pr[1] /\ r.to = pr[2] /\ r.type = type
             g1 == IF exists THEN g
                   ELSE [g EXCEPT
                           !.relatesTo = @ \cup {[rid |-> g.nextNid, from |-> pr[1],
                                                  to |-> pr[2], type |-> type]},
                           !.nextNid = @ + 1]
         IN  MergeRelatesTo(g1, pairs \ {pr}, type)

RECURSIVE StoreRelationshipRows(_, _)
StoreRelationshipRows(g, relationships) ==
    IF relationships = <<>> THEN g
    ELSE LET rel == Head(relationships)
         IN  StoreRelationshipRows(
                 MergeRelatesTo(g, SourceMatches(g, rel) \X TargetMatches(g, rel),
                                rel.type),
                 Tail(relationships))

store_entities_in_neo4j(g, chunk_id, chunkExists, entities, relationships) ==
    StoreRelationshipRows(StoreEntityRows(g, entities, chunk_id, chunkExists),
                          relationships)

(***************************************************************************)
(* The stores                                                              *)
(***************************************************************************)
SHARED_MEMORY_USER_ID == "__shared__"
GRAPHRAG_ENABLED == TRUE
Users == {"u1", "u2", SHARED_MEMORY_USER_ID}
FileName == "doc.pdf"
\* Cypher null / Python None, per kind of value.
NullName == <<>>
NullType == "null"
NullId == 0

Graph == [entityNodes |-> entityNodes, appearsIn |-> appearsIn,
          relatesTo |-> relatesTo, nextNid |-> nextNid]

ChunkNodeIds == {c.id : c \in chunkNodes}

\* MATCH (c:Chunk {id: ..})<-[:CONTAINS]-(d:Document): the documents
\* containing the chunk.
ContainingDocuments(chunk_id) ==
    {d \in documents :
        \E c \in chunkNodes : c.id = chunk_id /\ c.document_id = d.id}

(***************************************************************************)
(* search_similar_chunks                                                   *)
(***************************************************************************)
QueryVectors == {0, 1, 2}

\* The cosine score the vector store reports for a point under a query
\* vector (provider-defined; here the chunks 2 and 4 are ranked either way
\* or tied, by the query vector).
Similarity(query_vector, point_id) ==
    IF ((point_id \div 2) + query_vector) % 3 = 0 THEN 9000 ELSE 5000

\* A search without the user_id condition.
UserFilterAll(user_id, include_shared) == Users

\* user_filter: MatchAny([user_id, shared]) or MatchValue(user_id).
UserFilter(user_id, include_shared) ==
    IF include_shared /\ user_id # SHARED_MEMORY_USER_ID
    THEN {user_id, SHARED_MEMORY_USER_ID}
    ELSE {user_id}

\* query_points: the hits ranked by descending score.
RECURSIVE RankPoints(_, _)
RankPoints(hits, query_vector) ==
    IF hits = {} THEN <<>>
    ELSE LET best == CHOOSE p \in hits : \A o \in hits :
                        \/ Similarity(query_vector, p.id) > Similarity(query_vector, o.id)
                        \/ /\ Similarity(query_vector, p.id) = Similarity(query_vector, o.id)
                           /\ p.id <= o.id
         IN  <<[id |-> best.id, score |-> Similarity(query_vector, best.id),
                document_id |-> best.document_id]>>
             \o RankPoints(hits \ {best}, query_vector)

search_similar_chunks(query_vector, user_id, limit) ==
    LET hits == {p \in points : p.user_id \in UserFilter(user_id, TRUE)}
        ranked == RankPoints(hits, query_vector)
    IN  SubSeq(ranked, 1, Min(limit, Len(ranked)))

(***************************************************************************)
(* _enrich_chunks_with_neo4j                                               *)
(***************************************************************************)
EnrichChunk(chunk) ==
    LET ds == ContainingDocuments(chunk.id)
    IN  IF ds # {}
        THEN LET d == CHOOSE x \in ds : TRUE
             IN  [filename |-> d.filename, document_id |-> d.id] @@ chunk
        ELSE [filename |-> "Unknown"] @@ chunk

_enrich_chunks_with_neo4j(chunks) ==
    [i \in 1..Len(chunks) |-> EnrichChunk(chunks[i])]

(***************************************************************************)
(* get_entity_chunks_for_query and ENTITY_LOOKUP_QUERY                     *)
(***************************************************************************)
\* The (entity, chunk, document) matches of the pattern for the names,
\* filtered by d.user_id IN $user_ids.
EntityLookupMatches(names, user_ids) ==
    {m \in entityNodes \X chunkNodes \X documents :
        /\ m[1].normalized_name \in names
        /\ \E r \in appearsIn : r.from = m[1].nid /\ r.to = m[2].id
        /\ m[2].document_id = m[3].id
        /\ m[3].user_id \in user_ids}

EntityLookupRow(m) ==
    [id |-> m[2].id, document_id |-> m[3].id, filename |-> m[3].filename,
     matched_entity |-> m[1].name, entity_type |-> m[1].type,
     score |-> BaseScore, retrieval_method |-> "graph_entity_lookup"]

\* RETURN DISTINCT: the rows in a fixed order (by chunk, then by entity).
RECURSIVE OrderRows(_)
OrderRows(matches) ==
    IF matches = {} THEN <<>>
    ELSE LET first == CHOOSE m \in matches : \A o \in matches :
                         \/ m[2].id < o[2].id
                         \/ (m[2].id = o[2].id /\ m[1].nid <= o[1].nid)
             row == EntityLookupRow(first)
         IN  <<row>> \o OrderRows({o \in matches : EntityLookupRow(o) # row})

\* The subsequences of rows of a given length (LIMIT without ORDER BY may
\* keep any of the rows).
RECURSIVE SubSeqsOfLen(_, _)
SubSeqsOfLen(rows, n) ==
    IF n = 0 THEN {<<>>}
    ELSE IF Len(rows) < n THEN {}
    ELSE {<<Head(rows)>> \o t : t \in SubSeqsOfLen(Tail(rows), n - 1)}
         \cup SubSeqsOfLen(Tail(rows), n)

\* The lists get_entity_chunks_for_query can return when
\* extract_entities_from_chunk(query) yields query_entities.
get_entity_chunks_for_query(query_entities, user_id, limit) ==
    LET normalized_names ==
            {normalize_entity_name(query_entities[i].name) :
                i \in 1..Len(query_entities)}
        user_ids == {user_id, SHARED_MEMORY_USER_ID}
        rows == OrderRows(EntityLookupMatches(normalized_names, user_ids))
    IN  IF query_entities = <<>> THEN {<<>>}
        ELSE SubSeqsOfLen(rows, Min(limit, Len(rows)))

\* _safe_graph_entity_lookup: the lookup's result, or [] when the graph
\* path is disabled or the lookup raised.
_safe_graph_entity_lookup(query_entities, user_id, limit) ==
    IF ~GRAPHRAG_ENABLED THEN {<<>>}
    ELSE get_entity_chunks_for_query(query_entities, user_id, limit) \cup {<<>>}

(***************************************************************************)
(* expand_graph_context, MULTI_HOP_QUERY and DOCUMENT_CONTEXT_QUERY        *)
(***************************************************************************)
EXPAND_CAP == 15
MAX_HOPS == 2

Touches(r, nid) == r.from = nid \/ r.to = nid
OtherEnd(r, nid) == IF r.from = nid THEN r.to ELSE r.from

\* path = (e)-[:RELATES_TO*1..2]-(related) WHERE related <> e:
\* the pairs <<related nid, length(path)>>.
MultiHopPaths(nid) ==
    LET one == {<<OtherEnd(r, nid), 1>> : r \in {x \in relatesTo : Touches(x, nid)}}
        two == {<<OtherEnd(p[2], OtherEnd(p[1], nid)), 2>> :
                   p \in {q \in relatesTo \X relatesTo :
                            /\ Touches(q[1], nid)
                            /\ Touches(q[2], OtherEnd(q[1], nid))
                            /\ q[1] # q[2]}}
    IN  {p \in one \cup two : p[1] # nid /\ p[2] <= MAX_HOPS}

EntityByNid(nid) == CHOOSE n \in entityNodes : n.nid = nid

NullEntity == [name |-> NullName, type |-> NullType]

RelationTuple(e, related, hop, chunk) ==
    [entity |-> e.name,
     entity_type |-> e.type,
     related_entity |-> related.name,
     related_entity_type |-> related.type,
     hop_distance |-> hop,
     related_chunk_id |-> chunk]

\* OPTIONAL MATCH (related)-[:APPEARS_IN]->(other_chunk) WHERE other_chunk.id <> c.id
OtherChunks(related_nid, chunk_id) ==
    {r.to : r \in {x \in appearsIn : x.from = related_nid /\ x.to # chunk_id
                                      /\ x.to \in ChunkNodeIds}}

\* The maps collect(DISTINCT {...}) gathers for one chunk.
MultiHopTuples(chunk_id) ==
    LET es == {n \in entityNodes :
                  \E r \in appearsIn : r.from = n.nid /\ r.to = chunk_id}
        ForPath(e, p) ==
            LET others == OtherChunks(p[1], chunk_id)
            IN  IF others = {}
                THEN {RelationTuple(e, EntityByNid(p[1]), p[2], NullId)}
                ELSE {RelationTuple(e, EntityByNid(p[1]), p[2], oc) : oc \in others}
        ForEntity(e) ==
            LET paths == MultiHopPaths(e.nid)
            IN  IF paths = {} THEN {RelationTuple(e, NullEntity, NullId, NullId)}
                ELSE UNION {ForPath(e, p) : p \in paths}
    IN  IF es = {} THEN {RelationTuple(NullEntity, NullEntity, NullId, NullId)}
        ELSE UNION {ForEntity(e) : e \in es}

\* The collected list without the slice.
EntityRelationsUncapped(chunk_id) ==
    {{t \in MultiHopTuples(chunk_id) : t.entity # NullName}}

\* [0..15] of the collected list, then the filter on rel.get("entity").
EntityRelationChoices(chunk_id) ==
    LET all == MultiHopTuples(chunk_id)
        kept == IF Cardinality(all) <= EXPAND_CAP THEN {all}
                ELSE {s \in SUBSET all : Cardinality(s) = EXPAND_CAP}
    IN  {{t \in k : t.entity # NullName} : k \in kept}

\* DOCUMENT_CONTEXT_QUERY: up to five sibling chunk ids of the chunk's document.
SIBLING_CAP == 5
SiblingChoices(chunk_id) ==
    LET sibs == {c.id : c \in {x \in chunkNodes :
                    /\ x.id # chunk_id
                    /\ \E d \in ContainingDocuments(chunk_id) : x.document_id = d.id}}
    IN  IF Cardinality(sibs) <= SIBLING_CAP THEN {sibs}
        ELSE {s \in SUBSET sibs : Cardinality(s) = SIBLING_CAP}

\* result.single() of MULTI_HOP_QUERY: a record whenever the first MATCH
\* binds; the OPTIONAL MATCHes and the aggregation keep the row.
MultiHopHasRecord(chunk_id) == ContainingDocuments(chunk_id) # {}

\* fallback_result.single() of DOCUMENT_CONTEXT_QUERY, whose first MATCH is
\* the same pattern.
DocumentContextHasRecord(chunk_id) == ContainingDocuments(chunk_id) # {}

\* The context dicts expand_graph_context can build for one chunk id; a
\* context without the key related_chunks is read with the default [].
ChunkContexts(chunk_id) ==
    IF MultiHopHasRecord(chunk_id)
    THEN {[entity_relations |-> rels, related_chunks |-> {}] :
             rels \in EntityRelationChoices(chunk_id)}
    ELSE IF DocumentContextHasRecord(chunk_id)
         THEN {[entity_relations |-> {}, related_chunks |-> sibs] :
                  sibs \in SiblingChoices(chunk_id)}
         ELSE {[entity_relations |-> {}, related_chunks |-> {}]}

\* session.run(MULTI_HOP_QUERY, chunk_id=chunk_id): the query is given the
\* chunk id only, and its pattern has the fixed length 1..2; max_hops is a
\* parameter of the function that no statement reads.
expand_graph_context(chunk_ids, max_hops) ==
    {ctx \in [chunk_ids -> UNION {ChunkContexts(id) : id \in chunk_ids}] :
        \A id \in chunk_ids : ctx[id] \in ChunkContexts(id)}

(***************************************************************************)
(* retrieve_relevant_context                                               *)
(***************************************************************************)
\* The results the call can return: "chunks", with the two lists gathered in
\* step 2 beside it.
retrieve_relevant_context(query_vector, query_entities, user_id, maxres, include_graph_context) ==
    LET vchunks == search_similar_chunks(query_vector, user_id, maxres)
        enriched_vector == _enrich_chunks_with_neo4j(vchunks)
        Merged(gchunks) ==
            _merge_and_rerank(enriched_vector,
                              SelectSeq(gchunks, LAMBDA c : c.filename # ""),
                              maxres)
        Attach(merged, ctx) ==
            [i \in 1..Len(merged) |->
                [entity_relations |-> ctx[merged[i].id].entity_relations,
                 related_chunks |-> ctx[merged[i].id].related_chunks] @@ merged[i]]
        Expanded(merged) ==
            IF include_graph_context /\ merged # <<>>
            THEN {Attach(merged, ctx) :
                     ctx \in expand_graph_context({merged[i].id : i \in 1..Len(merged)},
                                                  MAX_HOPS)}
            ELSE {merged}
    IN  UNION {{[chunks |-> chunks, vector_chunks |-> vchunks,
                 graph_chunks |-> gchunks] : chunks \in Expanded(Merged(gchunks))} :
                  gchunks \in _safe_graph_entity_lookup(query_entities, user_id, maxres)}

(***************************************************************************)
(* Inputs of the store specifications                                      *)
(***************************************************************************)
MaxDocs == 2             \* documents ingested
MaxChunks == 1           \* chunks of one document
MaxStoreCalls == 3       \* direct store_entities_in_neo4j calls (SpecGraph)
MaxEntities == 2         \* entities in one answer of the LLM
MaxRelationships == 1    \* relationships in one answer of the LLM
MaxQueryEntities == 1    \* entities the LLM finds in a query
MaxRetrieve == 2         \* max_results of a query

NameACo == <<"A", " ", "c", "o">>
NameA == <<"a">>
NameB == <<"b">>
RawEntities ==
    {[name |-> NameACo, type |-> "ORGANIZATION"],
     [name |-> NameA, type |-> "ORGANIZATION"],
     [name |-> NameA, type |-> "PERSON"],
     [name |-> NameB, type |-> "ORGANIZATION"]}
RawRelationships == {[source |-> NameA, target |-> NameB, type |-> "USES"]}

LLMError == [ok |-> FALSE, entities |-> <<>>, relationships |-> <<>>]

\* What llm.ainvoke + _parse_json_response can hand to the validation.
LLMResponses ==
    [ok : {TRUE}, entities : SeqsUpTo(RawEntities, MaxEntities),
     relationships : SeqsUpTo(RawRelationships, MaxRelationships)]
    \cup {LLMError}

\* The results extract_entities_from_chunk has on these answers.
Extractions == {extract_entities_from_chunk(r) : r \in LLMResponses}

\* The answers of the LLM for a query text, and the results
\* extract_entities_from_chunk has on them.
QueryRawEntities ==
    {[name |-> NameACo, type |-> "ORGANIZATION"],
     [name |-> NameB, type |-> "ORGANIZATION"]}
QueryResponses ==
    [ok : {TRUE}, entities : SeqsUpTo(QueryRawEntities, MaxQueryEntities),
     relationships : {<<>>}]
    \cup {LLMError}
QueryExtractions == {extract_entities_from_chunk(r) : r \in QueryResponses}

NoOp == [op |-> "none"]

StoreIdle ==
    /\ documents = {} /\ chunkNodes = {} /\ points = {}
    /\ entityNodes = {} /\ appearsIn = {} /\ relatesTo = {}
    /\ nextUuid = 1 /\ nextNid = 1 /\ storeCalls = 0 /\ processed = {}
    /\ storeLog = {}
    /\ lastOp = NoOp

(***************************************************************************)
(* Operations on the stores.  lastOp holds the call in progress: a call    *)
(* acts in one step and returns in the next.                               *)
(***************************************************************************)
\* store_document_in_neo4j: the Document node and its Chunk nodes.
StoreDocument(user_id, n) ==
    /\ lastOp = NoOp
    /\ Cardinality(documents) < MaxDocs
    /\ documents' = documents \cup
           {[id |-> nextUuid, user_id |-> user_id, filename |-> FileName]}
    /\ chunkNodes' = chunkNodes \cup
           {[id |-> nextUuid + k, document_id |-> nextUuid] : k \in 1..n}
    /\ nextUuid' = nextUuid + n + 1
    /\ UNCHANGED <<points, graphVars, storeCalls, processed, storeLog, lastOp>>

\* store_chunks_in_qdrant / upsert_chunks: one point per chunk of chunk_data,
\* with the id of its Chunk node and the document's owner.
UpsertChunks(d) ==
    /\ lastOp = NoOp
    /\ ~\E p \in points : p.document_id = d.id
    /\ points' = points \cup
           {[id |-> c.id, document_id |-> d.id, user_id |-> d.user_id] :
               c \in {x \in chunkNodes : x.document_id = d.id}}
    /\ UNCHANGED <<documents, chunkNodes, nextUuid, graphVars, storeCalls,
                   processed, storeLog, lastOp>>

\* The effect of store_entities_in_neo4j(chunk_id, entities, relationships).
StoreEntitiesCall(chunk_id, entities, relationships) ==
    LET g == store_entities_in_neo4j(Graph, chunk_id, chunk_id \in ChunkNodeIds,
                                     entities, relationships)
    IN  /\ entityNodes' = g.entityNodes
        /\ appearsIn' = g.appearsIn
        /\ relatesTo' = g.relatesTo
        /\ nextNid' = g.nextNid
        /\ lastOp' = [op |-> "store_entities_in_neo4j", chunk_id |-> chunk_id,
                      entities |-> entities, relationships |-> relationships]

\* Step 5b of the pipeline for the next chunk of a document: its extraction
\* and, when that is not empty, store_entities_in_neo4j.
ExtractAndStore(c, extraction) ==
    /\ lastOp = NoOp
    /\ GRAPHRAG_ENABLED
    /\ \E p \in points : p.id = c.id
    /\ c.id \notin processed
    /\ \A o \in chunkNodes :
          (o.document_id = c.document_id /\ o.id < c.id) => o.id \in processed
    /\ processed' = processed \cup {c.id}
    /\ IF extraction.entities # <<>> \/ extraction.relationships # <<>>
       THEN StoreEntitiesCall(c.id, extraction.entities, extraction.relationships)
       ELSE UNCHANGED <<graphVars, lastOp>>
    /\ UNCHANGED <<documents, chunkNodes, points, nextUuid, storeCalls, storeLog>>

\* A direct call of store_entities_in_neo4j for an existing chunk.
StoreEntitiesDirect(c, extraction) ==
    /\ lastOp = NoOp
    /\ storeCalls < MaxStoreCalls
    /\ StoreEntitiesCall(c.id, extraction.entities, extraction.relationships)
    /\ storeCalls' = storeCalls + 1
    /\ storeLog' = storeLog \cup {lastOp'}
    /\ UNCHANGED <<documents, chunkNodes, points, nextUuid, processed>>

\* retrieve_relevant_context for one query of one user.
Retrieve(user_id, query_vector, query_entities, maxres, include_graph_context) ==
    /\ lastOp = NoOp
    /\ \E result \in retrieve_relevant_context(query_vector, query_entities, user_id,
                                               maxres, include_graph_context) :
          lastOp' = [op |-> "retrieve_relevant_context", user_id |-> user_id,
                     max_results |-> maxres] @@ result
    /\ UNCHANGED <<documents, chunkNodes, points, nextUuid, graphVars, storeCalls,
                   processed, storeLog>>

\* The call in progress returns.
Return ==
    /\ lastOp # NoOp
    /\ lastOp' = NoOp
    /\ UNCHANGED <<documents, chunkNodes, points, nextUuid, graphVars, storeCalls,
                   processed, storeLog>>

Ingest ==
    \/ \E u \in Users, n \in 1..MaxChunks : StoreDocument(u, n)
    \/ \E d \in documents : UpsertChunks(d)

Extract == \E c \in chunkNodes, x \in Extractions : ExtractAndStore(c, x)

DirectStore == \E c \in chunkNodes, x \in Extractions : StoreEntitiesDirect(c, x)

Query ==
    \E u \in Users, q \in QueryVectors, x \in QueryExtractions,
       k \in 1..MaxRetrieve, igc \in BOOLEAN : Retrieve(u, q, x.entities, k, igc)

\* SpecGraph starts from two ingested one-chunk documents of two tenants.
GraphInit ==
    /\ documents = {[id |-> 1, user_id |-> "u1", filename |-> FileName],
                    [id |-> 3, user_id |-> "u2", filename |-> FileName]}
    /\ chunkNodes = {[id |-> 2, document_id |-> 1], [id |-> 4, document_id |-> 3]}
    /\ points = {[id |-> 2, document_id |-> 1, user_id |-> "u1"],
                 [id |-> 4, document_id |-> 3, user_id |-> "u2"]}
    /\ entityNodes = {} /\ appearsIn = {} /\ relatesTo = {}
    /\ nextUuid = 5 /\ nextNid = 1 /\ storeCalls = 0 /\ processed = {}
    /\ storeLog = {}
    /\ lastOp = NoOp

(***************************************************************************)
(* expand_graph_context over stored graphs (SpecExpand)                    *)
(***************************************************************************)
MaxAppearsIn == 6        \* APPEARS_IN edges of the stored graph
MaxHopsArg == 2          \* max_hops arguments 1..MaxHopsArg

ExpandEntities ==
    {[nid |-> 1, normalized_name |-> NameA, type |-> "ORGANIZATION", name |-> NameA],
     [nid |-> 2, normalized_name |-> NameB, type |-> "ORGANIZATION", name |-> NameB],
     [nid |-> 3, normalized_name |-> NameA, type |-> "PERSON", name |-> NameA]}
ExpandChunks ==
    {[id |-> 2, document_id |-> 1], [id |-> 3, document_id |-> 1],
     [id |-> 5, document_id |-> 4]}
ExpandPairs == {<<1, 2>>, <<2, 3>>, <<1, 3>>}

\* Two ingested documents, the first of two chunks, and three entities
\* with any APPEARS_IN and RELATES_TO edges the extraction can have stored.
ExpandInit ==
    /\ documents = {[id |-> 1, user_id |-> "u1", filename |-> FileName],
                    [id |-> 4, user_id |-> "u2", filename |-> FileName]}
    /\ chunkNodes = ExpandChunks
    /\ points = {[id |-> c.id, document_id |-> c.document_id,
                  user_id |-> IF c.document_id = 1 THEN "u1" ELSE "u2"] :
                     c \in ExpandChunks}
    /\ entityNodes = ExpandEntities
    /\ \E ap \in SUBSET ({n.nid : n \in ExpandEntities} \X {c.id : c \in ExpandChunks}) :
          /\ Cardinality(ap) <= MaxAppearsIn
          /\ appearsIn = {[rid |-> 10 * e[1] + e[2], from |-> e[1], to |-> e[2]] :
                             e \in ap}
    /\ \E rl \in SUBSET ExpandPairs :
          relatesTo = {[rid |-> 100 + 10 * e[1] + e[2], from |-> e[1], to |-> e[2],
                        type |-> "USES"] : e \in rl}
    /\ nextUuid = 6 /\ nextNid = 200 /\ storeCalls = 0
    /\ processed = {c.id : c \in ExpandChunks}
    /\ storeLog = {}
    /\ lastOp = NoOp

\* expand_graph_context([chunk_id], max_hops).
ExpandContext(chunk_id, max_hops) ==
    /\ lastOp = NoOp
    /\ \E ctx \in expand_graph_context({chunk_id}, max_hops) :
          lastOp' = [op |-> "expand_graph_context", chunk_id |-> chunk_id,
                     max_hops |-> max_hops, context |-> ctx[chunk_id]]
    /\ UNCHANGED <<documents, chunkNodes, points, nextUuid, graphVars, storeCalls,
                   processed, storeLog>>

\* The ids asked for: those of the stored chunks and one the graph lacks.
Expand ==
    \E id \in ChunkNodeIds \cup {nextUuid}, h \in 1..MaxHopsArg : ExpandContext(id, h)

(***************************************************************************)
(* Document deletion: delete_document_endpoint, delete_by_document_id and  *)
(* delete_document                                                         *)
(***************************************************************************)
\* delete_by_document_id: the points left after the delete by filter.
delete_by_document_id(document_id) ==
    {p \in points : p.document_id # document_id}

\* collect(DISTINCT id(e)) over the chunks of the user's document.
EntityInternalIds(document_id, user_id) ==
    {r.from : r \in {x \in appearsIn :
        \E c \in chunkNodes, d \in documents :
            /\ d.id = document_id /\ d.user_id = user_id
            /\ c.document_id = d.id /\ x.to = c.id}}

\* A cleanup without the test for remaining APPEARS_IN edges.
OrphansUnchecked(entity_ids, appears) ==
    {n \in entityNodes : n.nid \in entity_ids}

\* UNWIND $entity_ids ... AND NOT (e)-[:APPEARS_IN]->(): the nodes the
\* cleanup deletes, given the APPEARS_IN edges left.
OrphanEntities(entity_ids, appears) ==
    {n \in entityNodes :
        /\ n.nid \in entity_ids
        /\ ~\E r \in appears : r.from = n.nid}

\* delete_document: the three statements of the session, as the stores
\* they leave and the value returned.
delete_document(document_id, user_id) ==
    LET matched == {d \in documents : d.id = document_id /\ d.user_id = user_id}
        deleted == matched # {}
        chunks == IF deleted THEN {c \in chunkNodes : c.document_id = document_id}
                  ELSE {}
        entity_ids == EntityInternalIds(document_id, user_id)
        \* DETACH DELETE d and its chunks
        appears1 == {r \in appearsIn : r.to \notin {c.id : c \in chunks}}
        \* if deleted and entity_ids: ... DETACH DELETE e
        orphans == IF deleted THEN OrphanEntities(entity_ids, appears1) ELSE {}
        orphan_nids == {n.nid : n \in orphans}
    IN  [deleted |-> deleted,
         entity_ids |-> entity_ids,
         documents |-> documents \ matched,
         chunkNodes |-> chunkNodes \ chunks,
         entityNodes |-> entityNodes \ orphans,
         appearsIn |-> appears1,
         relatesTo |-> {r \in relatesTo : r.from \notin orphan_nids
                                          /\ r.to \notin orphan_nids}]

\* fastapi.status.HTTP_404_NOT_FOUND, the status of "Document not found".
HTTP_404_NOT_FOUND == 404

\* An ownership check that looks the document up by its id alone.
GetDocumentOfAnyone(document_id, user_id) ==
    {d \in documents : d.id = document_id}

\* get_document_by_id: MATCH (u:User {id: $user_id})-[:OWNS]->
\* (d:Document {id: $document_id}); the empty set stands for None.
get_document_by_id(document_id, user_id) ==
    {d \in documents : d.id = document_id /\ d.user_id = user_id}

\* delete_document_endpoint up to the end of step 2: the ownership check
\* by get_document_by_id, then the deletion of the vectors.  The request
\* ends here (Return) when the process stops or delete_document raises.
DeleteVectors(document_id, user_id) ==
    /\ lastOp = NoOp
    /\ get_document_by_id(document_id, user_id) # {}
    /\ points' = delete_by_document_id(document_id)
    /\ lastOp' = [op |-> "delete_document_endpoint", document_id |-> document_id,
                  user_id |-> user_id]
    /\ UNCHANGED <<documents, chunkNodes, nextUuid, graphVars, storeCalls,
                   processed, storeLog, trackerKeys>>

\* delete_document_endpoint when step 1 finds no document of the caller:
\* HTTPException 404 before any store is touched.
DeleteNotFound(document_id, user_id) ==
    /\ lastOp = NoOp
    /\ get_document_by_id(document_id, user_id) = {}
    /\ lastOp' = [op |-> "delete_document_endpoint", document_id |-> document_id,
                  user_id |-> user_id, status_code |-> HTTP_404_NOT_FOUND]
    /\ UNCHANGED <<documents, chunkNodes, points, nextUuid, graphVars,
                   storeCalls, processed, storeLog, trackerKeys>>

\* Step 3 of delete_document_endpoint: delete_document.
DeleteGraph ==
    /\ lastOp # NoOp
    /\ lastOp.op = "delete_document_endpoint"
    /\ "status_code" \notin DOMAIN lastOp
    /\ LET r == delete_document(lastOp.document_id, lastOp.user_id)
       IN  /\ documents' = r.documents
           /\ chunkNodes' = r.chunkNodes
           /\ entityNodes' = r.entityNodes
           /\ appearsIn' = r.appearsIn
           /\ relatesTo' = r.relatesTo
           /\ lastOp' = [op |-> "delete_document",
                         document_id |-> lastOp.document_id,
                         user_id |-> lastOp.user_id,
                         entity_ids |-> r.entity_ids, deleted |-> r.deleted]
           \* task_tracker.remove(document_id), after the 500 for "not deleted"
           /\ trackerKeys' = IF r.deleted THEN trackerKeys \ {lastOp.document_id}
                              ELSE trackerKeys
    /\ UNCHANGED <<points, nextUuid, nextNid, storeCalls, processed, storeLog>>

Delete ==
    \/ \E d \in documents, u \in Users : DeleteVectors(d.id, u)
    \/ \E id \in 1..nextUuid, u \in Users : DeleteNotFound(id, u)
    \/ DeleteGraph

\* SpecDelete starts from two ingested one-chunk documents of two tenants
\* whose chunks have had their entities stored, one chunk after the other.
EmptyGraph == [entityNodes |-> {}, appearsIn |-> {}, relatesTo |-> {}, nextNid |-> 1]
DeleteInit ==
    /\ documents = {[id |-> 1, user_id |-> "u1", filename |-> FileName],
                    [id |-> 3, user_id |-> "u2", filename |-> FileName]}
    /\ chunkNodes = {[id |-> 2, document_id |-> 1], [id |-> 4, document_id |-> 3]}
    /\ points = {[id |-> 2, document_id |-> 1, user_id |-> "u1"],
                 [id |-> 4, document_id |-> 3, user_id |-> "u2"]}
    /\ \E x2 \in Extractions, x4 \in Extractions :
          LET g1 == store_entities_in_neo4j(EmptyGraph, 2, TRUE, x2.entities,
                                            x2.relationships)
              g2 == store_entities_in_neo4j(g1, 4, TRUE, x4.entities,
                                            x4.relationships)
          IN  /\ entityNodes = g2.entityNodes
              /\ appearsIn = g2.appearsIn
              /\ relatesTo = g2.relatesTo
              /\ nextNid = g2.nextNid
    /\ nextUuid = 5 /\ storeCalls = 0 /\ processed = {2, 4}
    /\ storeLog = {}
    /\ lastOp = NoOp
    \* the progress records of the two documents, each there or expired
    /\ trackerKeys \in SUBSET {1, 3}

(***************************************************************************)
(* Ingestion, deletion, the cleanup job and retrieval in any order         *)
(* (SpecLife): cleanup_expired_anonymous_data of jobs/cleanup.py.          *)
(***************************************************************************)
MaxLifeDocs == 2         \* documents ingested in a behaviour of SpecLife
AnonUser == "anon_1"     \* an anonymous session id
LifeUsers == {"u1", AnonUser}

\* user_id STARTS WITH $prefix, with settings.ANONYMOUS_PREFIX = "anon_".
StartsWithAnonymousPrefix(user_id) == user_id \in {AnonUser, "anon_2"}

\* upload_date of a Document node: datetime() at its creation, so the
\* order of the upload dates is the order in which the ids were drawn.
UploadDate(d) == d.id

\* cleanup_expired_anonymous_data at the cutoff given, when `statements`
\* of the two statements of step 1 ran before one raised (2: none did).
\* Step 2 scrolls the points whose payload has created_at below the cutoff
\* and deletes those of anonymous users.
cleanup_expired_anonymous_data(cutoff, statements) ==
    LET expired == {d \in documents : /\ StartsWithAnonymousPrefix(d.user_id)
                                       /\ UploadDate(d) < cutoff}
        chunks == IF statements >= 1
                  THEN {c \in chunkNodes : \E d \in expired : c.document_id = d.id}
                  ELSE {}
        docs == IF statements >= 2 THEN expired ELSE {}
        scrolled == {p \in points : /\ "created_at" \in DOMAIN p
                                     /\ p.created_at < cutoff}
        anon_points == {p \in scrolled : StartsWithAnonymousPrefix(p.user_id)}
    IN  [documents |-> documents \ docs,
         chunkNodes |-> chunkNodes \ chunks,
         \* DETACH DELETE c
         appearsIn |-> {r \in appearsIn : r.to \notin {c.id : c \in chunks}},
         points |-> points \ anon_points,
         stats |-> [documents |-> Cardinality(docs), chunks |-> Cardinality(chunks),
                    vectors |-> Cardinality(anon_points)]]

\* One run of the scheduled job.
Cleanup(cutoff, statements) ==
    /\ lastOp = NoOp
    /\ LET r == cleanup_expired_anonymous_data(cutoff, statements)
       IN  /\ documents' = r.documents
           /\ chunkNodes' = r.chunkNodes
           /\ appearsIn' = r.appearsIn
           /\ points' = r.points
           /\ lastOp' = [op |-> "cleanup_expired_anonymous_data", stats |-> r.stats]
    /\ UNCHANGED <<entityNodes, relatesTo, nextNid, nextUuid, storeCalls,
                   processed, storeLog, trackerKeys>>

\* process_document_pipeline for a document of one chunk, run to its end
\* with no other request in between: steps 4 and 5b.
IngestDocument(user_id, extraction) ==
    /\ lastOp = NoOp
    /\ nextUuid < 2 * MaxLifeDocs
    /\ LET document_id == nextUuid
           chunk_id == nextUuid + 1
           g == IF extraction.entities # <<>> \/ extraction.relationships # <<>>
                THEN store_entities_in_neo4j(Graph, chunk_id, TRUE,
                         extraction.entities, extraction.relationships)
                ELSE Graph
       IN  /\ documents' = documents \cup
                  {[id |-> document_id, user_id |-> user_id, filename |-> FileName]}
           /\ chunkNodes' = chunkNodes \cup
                  {[id |-> chunk_id, document_id |-> document_id]}
           /\ points' = points \cup
                  {[id |-> chunk_id, document_id |-> document_id, user_id |-> user_id]}
           /\ entityNodes' = g.entityNodes
           /\ appearsIn' = g.appearsIn
           /\ relatesTo' = g.relatesTo
           /\ nextNid' = g.nextNid
           /\ processed' = processed \cup {chunk_id}
           /\ trackerKeys' = trackerKeys \cup {document_id}
    /\ nextUuid' = nextUuid + 2
    /\ lastOp' = [op |-> "process_document_pipeline", document_id |-> nextUuid]
    /\ UNCHANGED <<storeCalls, storeLog>>

LifeIngest == \E u \in LifeUsers, x \in Extractions : IngestDocument(u, x)

LifeCleanup == \E cutoff \in 1..nextUuid, n \in 0..2 : Cleanup(cutoff, n)

LifeDelete ==
    \/ \E d \in documents, u \in LifeUsers : DeleteVectors(d.id, u)
    \/ DeleteGraph

\* A query without entities, by vector similarity alone.
LifeQuery ==
    \E u \in LifeUsers, q \in QueryVectors, k \in 1..MaxRetrieve :
        Retrieve(u, q, <<>>, k, FALSE)

(***************************************************************************)
(* Authentication (SpecAuth): core/auth.py, core/security.py, api/auth.py  *)
(* and the token keys of db/redis_client.py.  A token is the record of its *)
(* claims, the key that signed it and whether its exp has passed when it   *)
(* is presented.                                                           *)
(***************************************************************************)
MaxJti == 3              \* token pairs issued in a behaviour
MaxRefreshReqs == 2      \* /refresh requests in a behaviour
Emails == {"a@x.io", "b@x.io"}
SECRET_KEY == "secret"
ForgedKey == "forged"
FreshSession == "anon_2"
SessionCookies == {"", "anon_1", "junk"}

\* def create_token_pair(user_email, user_id): the positional parameters.
CreateTokenPairArity == 2

\* str(uuid4()) of register.
UserIdOf(email) == IF email = "a@x.io" THEN "u1" ELSE "u2"

\* jwt.encode of the claims; the access token has no "type" claim
\* (type "access" stands for its absence).
EncodeToken(email, user_id, jti, type) ==
    [sub |-> email, user_id |-> user_id, jti |-> jti, type |-> type,
     key |-> SECRET_KEY, expired |-> FALSE]

\* decode_access_token: jwt.decode with SECRET_KEY; the empty set stands
\* for None (ExpiredSignatureError, InvalidTokenError).
decode_access_token(token) ==
    IF token.key = SECRET_KEY /\ ~token.expired THEN {token} ELSE {}

\* decode_refresh_token: the same, and the type claim must be "refresh".
decode_refresh_token(token) ==
    {payload \in decode_access_token(token) : payload.type = "refresh"}

\* hashlib.sha256(token.encode()).hexdigest()
hash_refresh_token(token) == [sha256 |-> token]

\* create_token_pair called with the positional arguments args; the empty
\* set stands for the TypeError of a call with the wrong number of them.
create_token_pair(args, jti) ==
    IF Len(args) # CreateTokenPairArity THEN {}
    ELSE {[access_token |-> EncodeToken(args[1], args[2], jti, "access"),
           refresh_token |-> EncodeToken(args[1], args[2], jti, "refresh"),
           jti |-> jti]}

get_user_by_email(email) == {u \in users : u.email = email}

\* get_current_user: the user of the token with the token's jti; the empty
\* set stands for CredentialsException.
get_current_user(token) ==
    {[id |-> u.id, email |-> u.email, jti |-> payload.jti] :
        payload \in decode_access_token(token),
        u \in {x \in users : x.email = token.sub}}

\* get_current_user_optional: tokens is empty for a request without an
\* Authorization header; cookie is the session cookie ("" for none).
get_current_user_optional(tokens, cookie) ==
    LET authenticated ==
            {[id |-> u.id, is_anonymous |-> FALSE] :
                t \in {x \in tokens : decode_access_token(x) # {}},
                u \in {x \in users : \E y \in tokens : x.email = y.sub}}
        session_id == IF cookie = "" \/ ~StartsWithAnonymousPrefix(cookie)
                      THEN FreshSession ELSE cookie
    IN  IF authenticated # {} THEN authenticated
        ELSE {[id |-> session_id, is_anonymous |-> TRUE]}

\* The tokens a client can present: those issued, and copies of them
\* signed with another key or presented after their exp.
Presentable ==
    issued \cup {[t EXCEPT !.key = ForgedKey] : t \in issued}
           \cup {[t EXCEPT !.expired = TRUE] : t \in issued}

AuthFrame ==
    UNCHANGED <<documents, chunkNodes, points, nextUuid, graphVars, storeCalls,
                processed, storeLog>>

\* The tokens of a pair are issued and the hash of the refresh token is
\* stored under refresh:{user_id}:{jti}.
IssuePair(pair, user_id) ==
    /\ issued' = issued \cup {pair.access_token, pair.refresh_token}
    /\ refresh_store' = refresh_store \cup
           {[user_id |-> user_id, jti |-> pair.jti,
             token_hash |-> hash_refresh_token(pair.refresh_token)]}
    /\ nextJti' = nextJti + 1

\* POST /register.
Register(email) ==
    /\ lastOp = NoOp
    /\ nextJti <= MaxJti
    /\ IF get_user_by_email(email) # {}
       THEN /\ lastOp' = [op |-> "register", status_code |-> 400]
            /\ UNCHANGED <<users, issued, refresh_store, nextJti>>
       ELSE /\ users' = users \cup {[id |-> UserIdOf(email), email |-> email]}
            /\ LET pairs == create_token_pair(<<email, UserIdOf(email)>>, nextJti)
               IN  IF pairs = {}
                   THEN /\ lastOp' = [op |-> "register", status_code |-> 500]
                        /\ UNCHANGED <<issued, refresh_store, nextJti>>
                   ELSE /\ \E pair \in pairs : IssuePair(pair, UserIdOf(email))
                        /\ lastOp' = [op |-> "register", status_code |-> 201]
    /\ UNCHANGED <<blocklist, refreshReqs>>
    /\ AuthFrame

\* POST /login with the password right or wrong.
Login(email, password_ok) ==
    /\ lastOp = NoOp
    /\ nextJti <= MaxJti
    /\ IF get_user_by_email(email) = {} \/ ~password_ok
       THEN /\ lastOp' = [op |-> "login", status_code |-> 401]
            /\ UNCHANGED <<issued, refresh_store, nextJti>>
       ELSE LET pairs == create_token_pair(<<email, UserIdOf(email), "user">>, nextJti)
            IN  IF pairs = {}
                THEN /\ lastOp' = [op |-> "login", status_code |-> 500]
                     /\ UNCHANGED <<issued, refresh_store, nextJti>>
                ELSE /\ \E pair \in pairs : IssuePair(pair, UserIdOf(email))
                     /\ lastOp' = [op |-> "login", status_code |-> 200]
    /\ UNCHANGED <<users, blocklist, refreshReqs>>
    /\ AuthFrame

\* POST /refresh up to the answer of get_stored_refresh_token: the token
\* is decoded, its claims and the stored hash are checked.
RefreshCheck(token) ==
    /\ Len(refreshReqs) < MaxRefreshReqs
    /\ LET payloads == decode_refresh_token(token)
           stored == {r \in refresh_store :
                         r.user_id = token.user_id /\ r.jti = token.jti}
           ok == /\ payloads # {}
                 /\ stored # {}
                 /\ \A r \in stored : r.token_hash = hash_refresh_token(token)
       IN  refreshReqs' = Append(refreshReqs,
               [token |-> token,
                pc |-> IF ok THEN "verified" ELSE "done",
                status_code |-> IF ok THEN 0 ELSE 401])
    /\ UNCHANGED <<users, issued, refresh_store, blocklist, nextJti, lastOp>>
    /\ AuthFrame

\* The rest of POST /refresh: delete_refresh_token, then the new pair.
RefreshRotate(i) ==
    /\ refreshReqs[i].pc = "verified"
    /\ LET token == refreshReqs[i].token
           deleted == {r \in refresh_store :
                          r.user_id # token.user_id \/ r.jti # token.jti}
           pairs == create_token_pair(<<token.sub, token.user_id, "user">>, nextJti)
       IN  IF pairs = {}
           THEN /\ refresh_store' = deleted
                /\ refreshReqs' = [refreshReqs EXCEPT ![i].pc = "done",
                                                      ![i].status_code = 500]
                /\ UNCHANGED <<issued, nextJti>>
           ELSE /\ \E pair \in pairs :
                      /\ issued' = issued \cup {pair.access_token, pair.refresh_token}
                      /\ refresh_store' = deleted \cup
                             {[user_id |-> token.user_id, jti |-> pair.jti,
                               token_hash |-> hash_refresh_token(pair.refresh_token)]}
                /\ nextJti' = nextJti + 1
                /\ refreshReqs' = [refreshReqs EXCEPT ![i].pc = "done",
                                                      ![i].status_code = 200]
    /\ UNCHANGED <<users, blocklist, lastOp>>
    /\ AuthFrame

\* POST /logout.
Logout(token) ==
    /\ lastOp = NoOp
    /\ LET current == get_current_user(token)
       IN  IF current = {}
           THEN /\ lastOp' = [op |-> "logout", status_code |-> 401, jti |-> token.jti]
                /\ UNCHANGED blocklist
           ELSE /\ blocklist' = blocklist \cup {u.jti : u \in current}
                /\ lastOp' = [op |-> "logout", status_code |-> 200, jti |-> token.jti]
    /\ UNCHANGED <<users, issued, refresh_store, nextJti, refreshReqs>>
    /\ AuthFrame

\* A request to an endpoint that depends on get_current_user.
AuthenticatedRequest(token) ==
    /\ lastOp = NoOp
    /\ lastOp' = [op |-> "get_current_user", jti |-> token.jti,
                  status_code |-> IF get_current_user(token) = {} THEN 401 ELSE 200]
    /\ UNCHANGED authVars
    /\ AuthFrame

\* POST /query: get_current_user_optional, then the retrieval under the
\* id it gave.
QueryDocuments(tokens, cookie, query_vector) ==
    /\ lastOp = NoOp
    /\ LET current == get_current_user_optional(tokens, cookie)
       IN  IF current = {}
           THEN lastOp' = [op |-> "query_documents", tokens |-> tokens,
                           status_code |-> 401]
           ELSE \E u \in current :
                \E result \in retrieve_relevant_context(query_vector, <<>>, u.id,
                                                         1, FALSE) :
                    lastOp' = [op |-> "query_documents", tokens |-> tokens,
                               status_code |-> 200, user_id |-> u.id,
                               chunks |-> result.chunks]
    /\ UNCHANGED authVars
    /\ AuthFrame

\* The TTL of a blocklist:{jti} key runs out.
BlocklistExpire(jti) ==
    /\ jti \in blocklist
    /\ blocklist' = blocklist \ {jti}
    /\ UNCHANGED <<users, issued, refresh_store, nextJti, refreshReqs, lastOp>>
    /\ AuthFrame

AuthAccount ==
    \/ \E email \in Emails : Register(email)
    \/ \E email \in Emails, ok \in BOOLEAN : Login(email, ok)
AuthRefresh ==
    \/ \E token \in Presentable : RefreshCheck(token)
    \/ \E i \in 1..Len(refreshReqs) : RefreshRotate(i)
AuthSession ==
    \/ \E token \in Presentable : Logout(token) \/ AuthenticatedRequest(token)
    \/ \E jti \in blocklist : BlocklistExpire(jti)
AuthQuery ==
    \E tokens \in {{}} \cup {{t} : t \in Presentable}, cookie \in SessionCookies :
        QueryDocuments(tokens, cookie, 0)

(***************************************************************************)
(* Two ingestions in two worker processes (tasks.py: process_document_task *)
(* runs the pipeline in a Celery worker process).  Each store call of the  *)
(* pipeline is one step or, for the MERGE of Entity nodes, two: the graph  *)
(* store takes no lock for a MERGE on properties without a uniqueness      *)
(* constraint, and init_neo4j_schema declares one on Entity.id only, so    *)
(* the nodes a statement matches are those committed when it looked, and   *)
(* another transaction can commit before it does.                          *)
(***************************************************************************)
WorkersIdle == workers = <<>>
TrackIdle == trackerKeys = {}
AuthIdle ==
    /\ users = {} /\ issued = {} /\ refresh_store = {} /\ blocklist = {}
    /\ nextJti = 1 /\ refreshReqs = <<>>
Workers == {1, 2}
WorkerDocument(w) ==
    IF w = 1 THEN [id |-> 1, user_id |-> "u1", filename |-> FileName]
    ELSE [id |-> 3, user_id |-> "u2", filename |-> FileName]
WorkerChunk(w) == [id |-> WorkerDocument(w).id + 1, document_id |-> WorkerDocument(w).id]

\* Both documents are uploaded; each pipeline has its chunk and the result
\* extract_entities_batch will give for it.
ConcurrentInit ==
    /\ documents = {} /\ chunkNodes = {} /\ points = {}
    /\ entityNodes = {} /\ appearsIn = {} /\ relatesTo = {}
    /\ nextUuid = 5 /\ nextNid = 1 /\ storeCalls = 0 /\ processed = {}
    /\ storeLog = {}
    /\ lastOp = NoOp
    /\ \E x1 \in Extractions, x2 \in Extractions :
          workers = [w \in Workers |->
                        [pc |-> "store_neo4j",
                         extraction |-> IF w = 1 THEN x1 ELSE x2,
                         snapshot |-> {}]]

WorkerGoto(w, pc) == workers' = [workers EXCEPT ![w].pc = pc]

\* The position after the stores of step 4: the loop of step 5b calls
\* store_entities_in_neo4j only for a result that is not empty, and that
\* runs a statement only for a list that is not empty.
AfterStores(x) ==
    IF x.entities # <<>> THEN "entities"
    ELSE IF x.relationships # <<>> THEN "relationships" ELSE "done"

\* store_document_in_neo4j of worker w.
WorkerStoreNeo4j(w) ==
    /\ workers[w].pc = "store_neo4j"
    /\ documents' = documents \cup {WorkerDocument(w)}
    /\ chunkNodes' = chunkNodes \cup {WorkerChunk(w)}
    /\ WorkerGoto(w, "store_qdrant")
    /\ UNCHANGED <<points, nextUuid, graphVars, storeCalls, processed, storeLog, lastOp>>

\* store_chunks_in_qdrant of worker w.
WorkerStoreQdrant(w) ==
    /\ workers[w].pc = "store_qdrant"
    /\ points' = points \cup
           {[id |-> WorkerChunk(w).id, document_id |-> WorkerDocument(w).id,
             user_id |-> WorkerDocument(w).user_id]}
    /\ WorkerGoto(w, AfterStores(workers[w].extraction))
    /\ UNCHANGED <<documents, chunkNodes, nextUuid, graphVars, storeCalls, processed,
                   storeLog, lastOp>>

\* The entity statement of worker w looks for the nodes to bind.
WorkerMergeMatch(w) ==
    /\ workers[w].pc = "entities"
    /\ workers' = [workers EXCEPT ![w].pc = "merge",
                                  ![w].snapshot = {n.nid : n \in entityNodes}]
    /\ UNCHANGED storeVars

\* The entity statement of worker w commits: it binds the nodes it saw and
\* those it created itself, and creates the others.
WorkerMergeCommit(w) ==
    /\ workers[w].pc = "merge"
    /\ LET x == workers[w].extraction
           seen == [Graph EXCEPT
                      !.entityNodes = {n \in @ : n.nid \in workers[w].snapshot}]
           g == StoreEntityRows(seen, x.entities, WorkerChunk(w).id,
                                WorkerChunk(w).id \in ChunkNodeIds)
       IN  /\ entityNodes' = entityNodes \cup g.entityNodes
           /\ appearsIn' = g.appearsIn
           /\ nextNid' = g.nextNid
           /\ WorkerGoto(w, IF x.relationships # <<>> THEN "relationships" ELSE "done")
    /\ UNCHANGED <<documents, chunkNodes, points, nextUuid, relatesTo, storeCalls,
                   processed, storeLog, lastOp>>

\* The relationship statement of worker w.
WorkerRelationships(w) ==
    /\ workers[w].pc = "relationships"
    /\ LET g == StoreRelationshipRows(Graph, workers[w].extraction.relationships)
       IN  /\ relatesTo' = g.relatesTo
           /\ nextNid' = g.nextNid
    /\ WorkerGoto(w, "done")
    /\ UNCHANGED <<documents, chunkNodes, points, nextUuid, entityNodes, appearsIn,
                   storeCalls, processed, storeLog, lastOp>>

WorkerStore == \E w \in Workers : WorkerStoreNeo4j(w) \/ WorkerStoreQdrant(w)
WorkerEntities ==
    \E w \in Workers :
        WorkerMergeMatch(w) \/ WorkerMergeCommit(w) \/ WorkerRelationships(w)

\* SpecRace: the ingestion of document 1 in worker 1 while its owner asks
\* for its deletion; worker 2 has nothing to do.
RaceInit ==
    /\ documents = {} /\ chunkNodes = {} /\ points = {}
    /\ entityNodes = {} /\ appearsIn = {} /\ relatesTo = {}
    /\ nextUuid = 5 /\ nextNid = 1 /\ storeCalls = 0 /\ processed = {}
    /\ storeLog = {}
    /\ lastOp = NoOp
    /\ trackerKeys = {WorkerDocument(1).id}
    /\ \E x \in Extractions :
          workers = [w \in Workers |->
                        [pc |-> IF w = 1 THEN "store_neo4j" ELSE "idle",
                         extraction |-> x, snapshot |-> {}]]

\* The delete request of the owner of document 1; its response stays in
\* lastOp.
RaceDelete ==
    \/ DeleteVectors(WorkerDocument(1).id, WorkerDocument(1).user_id)
    \/ DeleteGraph

\* The graph after the two ingestions run one after the other.
SequentialGraph(first, second) ==
    LET x1 == workers[first].extraction
        x2 == workers[second].extraction
        g1 == store_entities_in_neo4j(EmptyGraph, WorkerChunk(first).id, TRUE,
                                      x1.entities, x1.relationships)
    IN  store_entities_in_neo4j(g1, WorkerChunk(second).id, TRUE,
                                x2.entities, x2.relationships)

(***************************************************************************)
(* TaskTracker: the progress record of one document                        *)
(***************************************************************************)
NullError == "null"
NoTask == [status |-> "none", progress |-> 0, error |-> NullError]

STAGE_PROGRESS(status) ==
    CASE status = "pending" -> 0
      [] status = "extracting" -> 10
      [] status = "chunking" -> 25
      [] status = "embedding" -> 40
      [] status = "indexing" -> 60
      [] status = "summarizing" -> 70
      [] status = "extracting_entities" -> 75
      [] status = "completed" -> 100
      [] status = "failed" -> 0

\* TaskTracker.create: a new record in PENDING state.
TrackerCreate == [status |-> "pending", progress |-> 0, error |-> NullError]

\* TaskTracker.update; progress < 0 stands for progress=None.
TrackerUpdate(record, status, progress) ==
    IF record = NoTask THEN record
    ELSE [record EXCEPT !.status = status,
                        !.progress = IF progress >= 0 THEN progress
                                     ELSE STAGE_PROGRESS(status)]

\* TaskTracker.complete
TrackerComplete(record) == TrackerUpdate(record, "completed", -1)

\* TaskTracker.fail
TrackerFail(record, error) ==
    IF record = NoTask THEN record
    ELSE [record EXCEPT !.status = "failed", !.progress = 0, !.error = error]

(***************************************************************************)
(* process_document_pipeline and extract_entities_batch for one upload.    *)
(* Every call of the tracker, of a capability or of a store either returns *)
(* or raises.                                                              *)
(***************************************************************************)
MaxPipeChunks == 4       \* chunks chunk_text returns for the upload
MaxPipeEntities == 1     \* entities in one answer of the LLM during the batch
concurrency == 3
PipeDocumentId == 1
PipeUser == "u1"
ErrEmpty == "Document appears to be empty"
ErrException == "str(e)"

NoneResult == [none |-> TRUE]
PipeExtractions ==
    {extract_entities_from_chunk(r) :
        r \in {x \in LLMResponses : Len(x.entities) <= MaxPipeEntities}}

\* The chunk lists chunk_text can return: a chunk's text is blank or not.
ChunkLists == SeqsUpTo([id : {NullId}, blank : BOOLEAN], MaxPipeChunks)

PipeIdle ==
    /\ pipelinePc = "idle" /\ task = NoTask /\ chunk_data = <<>>
    /\ chunkTask = <<>> /\ results = <<>> /\ completed_count = 0 /\ semaphore = 0

\* The upload endpoint has created the record and queued the pipeline.
PipeInit ==
    /\ pipelinePc = "start" /\ task = TrackerCreate /\ chunk_data = <<>>
    /\ chunkTask = <<>> /\ results = <<>> /\ completed_count = 0 /\ semaphore = 0
    /\ documents = {} /\ chunkNodes = {} /\ points = {}
    /\ entityNodes = {} /\ appearsIn = {} /\ relatesTo = {}
    /\ nextUuid = PipeDocumentId + 1 /\ nextNid = 1 /\ storeCalls = 0
    /\ processed = {} /\ storeLog = {} /\ lastOp = NoOp

batchVars == <<chunkTask, results, completed_count, semaphore>>
storeRest == <<storeCalls, processed, storeLog, lastOp>>

\* The task_tracker.update / complete calls of the pipeline, by position.
UpdateStatusAt(pc) ==
    CASE pc = "start" -> "extracting"
      [] pc = "pre_chunk" -> "chunking"
      [] pc = "pre_embed" -> "embedding"
      [] pc = "pre_index" -> "indexing"
      [] pc = "pre_entities" -> "extracting_entities"
      [] pc = "pre_complete" -> "completed"
AfterUpdate(pc) ==
    CASE pc = "start" -> "extract_text"
      [] pc = "pre_chunk" -> "chunk_text"
      [] pc = "pre_embed" -> "embed"
      [] pc = "pre_index" -> "store_neo4j"
      [] pc = "pre_entities" -> "batch"
      [] pc = "pre_complete" -> "done"
UpdatePositions ==
    {"start", "pre_chunk", "pre_embed", "pre_index", "pre_entities", "pre_complete"}

PipeUpdate(redis_ok) ==
    /\ pipelinePc \in UpdatePositions
    /\ IF redis_ok
       THEN /\ task' = TrackerUpdate(task, UpdateStatusAt(pipelinePc), -1)
            /\ pipelinePc' = AfterUpdate(pipelinePc)
       ELSE /\ pipelinePc' = "except"
            /\ UNCHANGED task
    /\ UNCHANGED <<chunk_data, batchVars, storeVars>>

\* Step 1: extract_text_from_pdf / extract_text_from_docx.
ExtractText(ok) ==
    /\ pipelinePc = "extract_text"
    /\ pipelinePc' = IF ok THEN "pre_chunk" ELSE "except"
    /\ UNCHANGED <<task, chunk_data, batchVars, storeVars>>

\* Step 2 without the test for an empty chunk list.
ChunkTextUntested(chunks, ok) ==
    /\ pipelinePc = "chunk_text"
    /\ IF ~ok THEN pipelinePc' = "except" /\ UNCHANGED chunk_data
       ELSE chunk_data' = chunks /\ pipelinePc' = "pre_embed"
    /\ UNCHANGED <<task, batchVars, storeVars>>

\* Step 2: chunk_text, and the test for an empty chunk list.
ChunkText(chunks, ok) ==
    /\ pipelinePc = "chunk_text"
    /\ IF ~ok THEN pipelinePc' = "except" /\ UNCHANGED chunk_data
       ELSE /\ chunk_data' = chunks
            /\ pipelinePc' = IF chunks = <<>> THEN "empty" ELSE "pre_embed"
    /\ UNCHANGED <<task, batchVars, storeVars>>

\* if not chunks: task_tracker.fail(...); return
EmptyFail(redis_ok) ==
    /\ pipelinePc = "empty"
    /\ IF redis_ok
       THEN task' = TrackerFail(task, ErrEmpty) /\ pipelinePc' = "returned"
       ELSE pipelinePc' = "except" /\ UNCHANGED task
    /\ UNCHANGED <<chunk_data, batchVars, storeVars>>

\* Step 3: generate_embeddings, then one uuid per chunk of chunk_data.
GenerateEmbeddings(ok) ==
    /\ pipelinePc = "embed"
    /\ IF ~ok THEN pipelinePc' = "except" /\ UNCHANGED <<chunk_data, nextUuid>>
       ELSE /\ chunk_data' = [i \in 1..Len(chunk_data) |->
                                 [chunk_data[i] EXCEPT !.id = nextUuid + i - 1]]
            /\ nextUuid' = nextUuid + Len(chunk_data)
            /\ pipelinePc' = "pre_index"
    /\ UNCHANGED <<task, batchVars, documents, chunkNodes, points, graphVars, storeRest>>

\* Step 4: store_document_in_neo4j.
PipeStoreNeo4j(ok) ==
    /\ pipelinePc = "store_neo4j"
    /\ IF ~ok THEN pipelinePc' = "except" /\ UNCHANGED <<documents, chunkNodes>>
       ELSE /\ documents' = documents \cup
                   {[id |-> PipeDocumentId, user_id |-> PipeUser, filename |-> FileName]}
            /\ chunkNodes' = chunkNodes \cup
                   {[id |-> chunk_data[i].id, document_id |-> PipeDocumentId] :
                       i \in 1..Len(chunk_data)}
            /\ pipelinePc' = "store_qdrant"
    /\ UNCHANGED <<task, chunk_data, batchVars, points, nextUuid, graphVars, storeRest>>

\* A vector store write that keeps the first chunk only.
PipeStoreQdrantFirst(ok) ==
    /\ pipelinePc = "store_qdrant"
    /\ IF ~ok THEN pipelinePc' = "except" /\ UNCHANGED points
       ELSE /\ points' = points \cup
                   {[id |-> chunk_data[i].id, document_id |-> PipeDocumentId,
                     user_id |-> PipeUser] : i \in {1}}
            /\ pipelinePc' = IF GRAPHRAG_ENABLED THEN "pre_entities" ELSE "pre_complete"
    /\ UNCHANGED <<task, chunk_data, batchVars, documents, chunkNodes, nextUuid,
                   graphVars, storeRest>>

\* Step 4: store_chunks_in_qdrant, then the GRAPHRAG_ENABLED test.
PipeStoreQdrant(ok) ==
    /\ pipelinePc = "store_qdrant"
    /\ IF ~ok THEN pipelinePc' = "except" /\ UNCHANGED points
       ELSE /\ points' = points \cup
                   {[id |-> chunk_data[i].id, document_id |-> PipeDocumentId,
                     user_id |-> PipeUser] : i \in 1..Len(chunk_data)}
            /\ pipelinePc' = IF GRAPHRAG_ENABLED THEN "pre_entities" ELSE "pre_complete"
    /\ UNCHANGED <<task, chunk_data, batchVars, documents, chunkNodes, nextUuid,
                   graphVars, storeRest>>

\* extract_entities_batch up to asyncio.gather: one process_chunk task per chunk.
LaunchBatch ==
    /\ pipelinePc = "batch"
    /\ chunkTask' = [i \in 1..Len(chunk_data) |-> "new"]
    /\ results' = [i \in 1..Len(chunk_data) |-> NoneResult]
    /\ completed_count' = 0
    /\ semaphore' = concurrency
    /\ pipelinePc' = "gather"
    /\ UNCHANGED <<task, chunk_data, storeVars>>

\* An entry that takes no permit.
EnterUncounted(i, llm_ok) ==
    /\ chunkTask' = [chunkTask EXCEPT ![i] = IF llm_ok THEN "running" ELSE "raised"]
    /\ UNCHANGED semaphore

\* async with semaphore, then extract_entities_from_chunk up to the LLM
\* call; its get_llm is outside the try block.
EnterSemaphore(i, llm_ok) ==
    IF llm_ok
    THEN /\ semaphore' = semaphore - 1
         /\ chunkTask' = [chunkTask EXCEPT ![i] = "running"]
    ELSE /\ chunkTask' = [chunkTask EXCEPT ![i] = "raised"]
         /\ UNCHANGED semaphore

\* A slot chosen by the order of completion.
ResultIndexByCompletion(i) == completed_count + 1

\* process_chunk(i, chunk) for i, chunk in enumerate(chunks): the slot of
\* results that task i writes.
ResultIndex(i) == i

\* process_chunk up to its first suspension; the tasks of a gather take
\* their first step in the order of the list.  A blank chunk is done at
\* once; another takes a permit or waits for one.
TaskStart(i, llm_ok) ==
    /\ chunkTask[i] = "new"
    /\ \A j \in 1..(i - 1) : chunkTask[j] # "new"
    /\ IF chunk_data[i].blank
       THEN /\ results' = [results EXCEPT ![ResultIndex(i)] = EmptyExtraction]
            /\ completed_count' = completed_count + 1
            /\ chunkTask' = [chunkTask EXCEPT ![i] = "done"]
            /\ UNCHANGED semaphore
       ELSE /\ IF semaphore > 0 THEN EnterSemaphore(i, llm_ok)
               ELSE /\ chunkTask' = [chunkTask EXCEPT ![i] = "waiting"]
                    /\ UNCHANGED semaphore
            /\ UNCHANGED <<results, completed_count>>
    /\ UNCHANGED <<pipelinePc, task, chunk_data, storeVars>>

\* A task waiting for the semaphore gets a released permit.
TaskAcquire(i, llm_ok) ==
    /\ chunkTask[i] = "waiting"
    /\ semaphore > 0
    /\ EnterSemaphore(i, llm_ok)
    /\ UNCHANGED <<pipelinePc, task, chunk_data, results, completed_count, storeVars>>

\* A percentage that falls as chunks complete.
ChunkProgressRemaining(count, total) == 85 + ((total - count) * 14) \div total

\* pct = 85 + int((completed_count / total) * 14)
ChunkProgress(count, total) == 85 + (count * 14) \div total

\* process_chunk after the LLM call: the result, the count, the per-chunk
\* progress write, and the release of the permit.
TaskFinish(i, extraction, redis_ok) ==
    /\ chunkTask[i] = "running"
    /\ results' = [results EXCEPT ![ResultIndex(i)] = extraction]
    /\ completed_count' = completed_count + 1
    /\ semaphore' = semaphore + 1
    /\ IF redis_ok
       THEN /\ task' = TrackerUpdate(task, "extracting_entities",
                           ChunkProgress(completed_count', Len(chunk_data)))
            /\ chunkTask' = [chunkTask EXCEPT ![i] = "done"]
       ELSE /\ chunkTask' = [chunkTask EXCEPT ![i] = "raised"]
            /\ UNCHANGED task
    /\ UNCHANGED <<pipelinePc, chunk_data, storeVars>>

\* await asyncio.gather(*tasks): the first exception of a task is raised
\* into the pipeline while the other tasks go on; otherwise it returns when
\* every task is done.
GatherReturn ==
    /\ pipelinePc = "gather"
    /\ \A i \in 1..Len(chunkTask) : chunkTask[i] # "new"
    /\ \/ /\ \E i \in 1..Len(chunkTask) : chunkTask[i] = "raised"
          /\ pipelinePc' = "except"
       \/ /\ \A i \in 1..Len(chunkTask) : chunkTask[i] = "done"
          /\ pipelinePc' = "store_entities"
    /\ UNCHANGED <<task, chunk_data, batchVars, storeVars>>

\* The loop over zip(chunk_data, entity_results) up to chunk k.
RECURSIVE StoreEntityResults(_, _)
StoreEntityResults(g, k) ==
    IF k = 0 THEN g
    ELSE LET before == StoreEntityResults(g, k - 1)
             r == results[k]
         IN  IF r.entities # <<>> \/ r.relationships # <<>>
             THEN store_entities_in_neo4j(before, chunk_data[k].id,
                      chunk_data[k].id \in ChunkNodeIds, r.entities, r.relationships)
             ELSE before

\* Step 5b after the batch: the stores of the first k chunks succeed; the
\* store of chunk k + 1, if there is one, raises.
PipeStoreEntities(k) ==
    /\ pipelinePc = "store_entities"
    /\ LET g == StoreEntityResults(Graph, k)
       IN  /\ entityNodes' = g.entityNodes
           /\ appearsIn' = g.appearsIn
           /\ relatesTo' = g.relatesTo
           /\ nextNid' = g.nextNid
    /\ pipelinePc' = IF k = Len(chunk_data) THEN "pre_complete" ELSE "except"
    /\ UNCHANGED <<task, chunk_data, batchVars, documents, chunkNodes, points,
                   nextUuid, storeRest>>

\* except Exception as e: task_tracker.fail(document_id, str(e)); raise
PipeExcept(redis_ok) ==
    /\ pipelinePc = "except"
    /\ task' = IF redis_ok THEN TrackerFail(task, ErrException) ELSE task
    /\ pipelinePc' = "raised"
    /\ UNCHANGED <<chunk_data, batchVars, storeVars>>

PipeStage ==
    \/ \E ok \in BOOLEAN : ExtractText(ok)
    \/ \E chunks \in ChunkLists, ok \in BOOLEAN : ChunkText(chunks, ok)
    \/ \E ok \in BOOLEAN : GenerateEmbeddings(ok)
    \/ \E ok \in BOOLEAN : PipeStoreNeo4j(ok)
    \/ \E ok \in BOOLEAN : PipeStoreQdrant(ok)
    \/ \E k \in 0..Len(chunk_data) : PipeStoreEntities(k)

PipeTracker ==
    \/ \E ok \in BOOLEAN : PipeUpdate(ok)
    \/ \E ok \in BOOLEAN : EmptyFail(ok)
    \/ \E ok \in BOOLEAN : PipeExcept(ok)

PipeBatch ==
    \/ LaunchBatch
    \/ \E i \in 1..Len(chunkTask), ok \in BOOLEAN : TaskStart(i, ok)
    \/ \E i \in 1..Len(chunkTask), ok \in BOOLEAN : TaskAcquire(i, ok)
    \/ \E i \in 1..Len(chunkTask), x \in PipeExtractions, ok \in BOOLEAN :
          TaskFinish(i, x, ok)
    \/ GatherReturn

(***************************************************************************)
(* Specifications                                                          *)
(***************************************************************************)
NormNext == Normalize /\ UNCHANGED <<mergeVars, storeVars, pipeVars, workerVars, trackVars, authVars>>
MergeNext == Merge /\ UNCHANGED <<normVars, storeVars, pipeVars, workerVars, trackVars, authVars>>
IngestStep == Ingest /\ UNCHANGED <<normVars, mergeVars, pipeVars, workerVars, trackVars, authVars>>
ExtractStep == Extract /\ UNCHANGED <<normVars, mergeVars, pipeVars, workerVars, trackVars, authVars>>
DirectStoreStep == DirectStore /\ UNCHANGED <<normVars, mergeVars, pipeVars, workerVars, trackVars, authVars>>
QueryStep == Query /\ UNCHANGED <<normVars, mergeVars, pipeVars, workerVars, trackVars, authVars>>
ReturnStep == Return /\ UNCHANGED <<normVars, mergeVars, pipeVars, workerVars, trackVars, authVars>>
Next == IngestStep \/ ExtractStep \/ QueryStep \/ ReturnStep
GraphNext == DirectStoreStep \/ ReturnStep
DeleteStep == Delete /\ UNCHANGED <<normVars, mergeVars, pipeVars, workerVars, authVars>>
DeleteNext == DeleteStep \/ ReturnStep
LifeIngestStep == LifeIngest /\ UNCHANGED <<normVars, mergeVars, pipeVars, workerVars, authVars>>
LifeCleanupStep == LifeCleanup /\ UNCHANGED <<normVars, mergeVars, pipeVars, workerVars, authVars>>
LifeDeleteStep == LifeDelete /\ UNCHANGED <<normVars, mergeVars, pipeVars, workerVars, authVars>>
LifeQueryStep == LifeQuery /\ UNCHANGED <<normVars, mergeVars, pipeVars, workerVars, trackVars, authVars>>
LifeNext == LifeIngestStep \/ LifeCleanupStep \/ LifeDeleteStep \/ LifeQueryStep \/ ReturnStep
AuthAccountStep == AuthAccount /\ UNCHANGED <<normVars, mergeVars, pipeVars, workerVars, trackVars>>
AuthRefreshStep == AuthRefresh /\ UNCHANGED <<normVars, mergeVars, pipeVars, workerVars, trackVars>>
AuthSessionStep == AuthSession /\ UNCHANGED <<normVars, mergeVars, pipeVars, workerVars, trackVars>>
AuthQueryStep == AuthQuery /\ UNCHANGED <<normVars, mergeVars, pipeVars, workerVars, trackVars>>
AuthNext == AuthAccountStep \/ AuthRefreshStep \/ AuthSessionStep \/ AuthQueryStep \/ ReturnStep
ExpandStep == Expand /\ UNCHANGED <<normVars, mergeVars, pipeVars, workerVars, trackVars, authVars>>
ExpandNext == ExpandStep \/ ReturnStep
WorkerStoreStep == WorkerStore /\ UNCHANGED <<normVars, mergeVars, pipeVars, trackVars, authVars>>
WorkerEntitiesStep == WorkerEntities /\ UNCHANGED <<normVars, mergeVars, pipeVars, trackVars, authVars>>
ConcurrentNext == WorkerStoreStep \/ WorkerEntitiesStep
RaceDeleteStep == RaceDelete /\ UNCHANGED <<normVars, mergeVars, pipeVars, workerVars, authVars>>
RaceNext == WorkerStoreStep \/ WorkerEntitiesStep \/ RaceDeleteStep
PipeStageStep == PipeStage /\ UNCHANGED <<normVars, mergeVars, workerVars, trackVars, authVars>>
PipeTrackerStep == PipeTracker /\ UNCHANGED <<normVars, mergeVars, workerVars, trackVars, authVars>>
PipeBatchStep == PipeBatch /\ UNCHANGED <<normVars, mergeVars, workerVars, trackVars, authVars>>
PipeNext == PipeStageStep \/ PipeTrackerStep \/ PipeBatchStep

InitNorm == NormInit /\ MergeIdle /\ StoreIdle /\ PipeIdle /\ WorkersIdle /\ TrackIdle /\ AuthIdle
InitMerge == MergeInit /\ NormIdle /\ StoreIdle /\ PipeIdle /\ WorkersIdle /\ TrackIdle /\ AuthIdle
Init == StoreIdle /\ NormIdle /\ MergeIdle /\ PipeIdle /\ WorkersIdle /\ TrackIdle /\ AuthIdle

InitGraph == GraphInit /\ NormIdle /\ MergeIdle /\ PipeIdle /\ WorkersIdle /\ TrackIdle /\ AuthIdle
InitPipe == PipeInit /\ NormIdle /\ MergeIdle /\ WorkersIdle /\ TrackIdle /\ AuthIdle
InitDelete == DeleteInit /\ NormIdle /\ MergeIdle /\ PipeIdle /\ WorkersIdle /\ AuthIdle
InitConcurrent == ConcurrentInit /\ NormIdle /\ MergeIdle /\ PipeIdle /\ TrackIdle /\ AuthIdle
InitLife == StoreIdle /\ NormIdle /\ MergeIdle /\ PipeIdle /\ WorkersIdle /\ TrackIdle /\ AuthIdle
InitRace == RaceInit /\ NormIdle /\ MergeIdle /\ PipeIdle /\ AuthIdle
InitAuth == StoreIdle /\ NormIdle /\ MergeIdle /\ PipeIdle /\ WorkersIdle /\ TrackIdle /\ AuthIdle
InitExpand == ExpandInit /\ NormIdle /\ MergeIdle /\ PipeIdle /\ WorkersIdle /\ TrackIdle /\ AuthIdle

Spec == Init /\ [][Next]_vars
SpecGraph == InitGraph /\ [][GraphNext]_vars
SpecPipe == InitPipe /\ [][PipeNext]_vars
SpecDelete == InitDelete /\ [][DeleteNext]_vars
SpecExpand == InitExpand /\ [][ExpandNext]_vars
SpecConcurrent == InitConcurrent /\ [][ConcurrentNext]_vars
SpecLife == InitLife /\ [][LifeNext]_vars
SpecRace == InitRace /\ [][RaceNext]_vars
SpecAuth == InitAuth /\ [][AuthNext]_vars

\* The event loop runs every task that is ready, and every awaited LLM call
\* returns or raises.
SpecPipeFair == InitPipe /\ [][PipeNext]_vars /\ WF_vars(PipeBatchStep)

SpecNorm == InitNorm /\ [][NormNext]_vars
SpecMerge == InitMerge /\ [][MergeNext]_vars

(***************************************************************************)
(* Claims about retrieve_relevant_context (Spec)                           *)
(***************************************************************************)
OwnersOf(chunk_id) == {d.user_id : d \in ContainingDocuments(chunk_id)}
VisibleTo(user_id, chunk_id) ==
    /\ OwnersOf(chunk_id) # {}
    /\ OwnersOf(chunk_id) \subseteq {user_id, SHARED_MEMORY_USER_ID}
Appears(n, chunk_id) == \E r \in appearsIn : r.from = n.nid /\ r.to = chunk_id

\* C1: every chunk in the list retrieve_relevant_context returns for a user,
\* from the vector path or from the graph path, belongs to a document owned
\* by that user or by the shared owner.
C1_RetrievedChunksVisibleToUser ==
    lastOp.op = "retrieve_relevant_context" =>
        \A i \in 1..Len(lastOp.chunks) : VisibleTo(lastOp.user_id, lastOp.chunks[i].id)

\* A retrieval of u1 returns a chunk found by both paths whose matched
\* entity also appears in an indexed chunk of u2's document.
C1_Witness ==
    /\ lastOp.op = "retrieve_relevant_context"
    /\ lastOp.user_id = "u1"
    /\ \E i \in 1..Len(lastOp.chunks), n \in entityNodes, p \in points :
          /\ lastOp.chunks[i].retrieval_method = "hybrid"
          /\ Appears(n, lastOp.chunks[i].id)
          /\ Appears(n, p.id)
          /\ p.user_id = "u2"
          /\ OwnersOf(p.id) = {"u2"}

\* C2: every related_chunk_id in the entity_relations attached to a chunk of
\* a user's retrieval result belongs to a document owned by that user or by
\* the shared owner.
C2_ExpansionVisibleToUser ==
    lastOp.op = "retrieve_relevant_context" =>
        \A i \in 1..Len(lastOp.chunks) :
            "entity_relations" \in DOMAIN lastOp.chunks[i] =>
                \A t \in lastOp.chunks[i].entity_relations :
                    t.related_chunk_id # NullId =>
                        VisibleTo(lastOp.user_id, t.related_chunk_id)

(***************************************************************************)
(* Claims about _merge_and_rerank (SpecMerge)                              *)
(***************************************************************************)
IdsOf(chunks) == {chunks[i].id : i \in 1..Len(chunks)}
InBoth(id) == id \in IdsOf(vector_chunks) /\ id \in IdsOf(graph_chunks)
VectorOnly(id) == id \in IdsOf(vector_chunks) /\ id \notin IdsOf(graph_chunks)
GraphOnly(id) == id \notin IdsOf(vector_chunks) /\ id \in IdsOf(graph_chunks)
VectorScoreOf(id) == vector_chunks[IndexOfId(vector_chunks, id)].score

\* C3: a chunk whose id occurs in both lists ends with score exactly
\* min(vector_score * 1.2, 1.0) and with retrieval_method "hybrid".
C3_HybridScoreIsOneBoost ==
    mergePc = "done" =>
        \A i \in 1..Len(mergeResult) :
            InBoth(mergeResult[i].id) =>
                /\ mergeResult[i].score
                     = Min((VectorScoreOf(mergeResult[i].id) * 12) \div 10, ScoreOne)
                /\ mergeResult[i].retrieval_method = "hybrid"

\* C4: a chunk found by both paths has a merged score that is at least its
\* vector score and at least the graph base score 0.7.
C4_HybridNotBelowEitherPath ==
    mergePc = "done" =>
        \A i \in 1..Len(mergeResult) :
            InBoth(mergeResult[i].id) =>
                /\ mergeResult[i].score >= VectorScoreOf(mergeResult[i].id)
                /\ mergeResult[i].score >= BaseScore

\* C5: a chunk only in the vector list keeps its similarity score; a chunk
\* only in the graph list, whatever the number of its rows, keeps the base
\* score 0.7 and is not tagged "hybrid".
C5_SinglePathKeepsScore ==
    mergePc = "done" =>
        \A i \in 1..Len(mergeResult) :
            /\ VectorOnly(mergeResult[i].id) =>
                   mergeResult[i].score = VectorScoreOf(mergeResult[i].id)
            /\ GraphOnly(mergeResult[i].id) =>
                   /\ mergeResult[i].score = BaseScore
                   /\ mergeResult[i].retrieval_method # "hybrid"

InputIds == IdsOf(vector_chunks) \cup IdsOf(graph_chunks)
Omitted ==
    LET all == MergedDict(vector_chunks, graph_chunks)
    IN  {all[i] : i \in {j \in 1..Len(all) : all[j].id \notin IdsOf(mergeResult)}}

\* C6: the output holds each chunk id at most once, is ordered by
\* non-increasing score, has length min(max_results, number of distinct
\* input ids), and no omitted chunk scores strictly above an included one.
C6_DedupSortedTruncated ==
    mergePc = "done" =>
        /\ DistinctIds(mergeResult)
        /\ NonIncreasing(mergeResult)
        /\ Len(mergeResult) = Min(max_results, Cardinality(InputIds))
        /\ IdsOf(mergeResult) \subseteq InputIds
        /\ \A o \in Omitted : \A i \in 1..Len(mergeResult) :
               o.score <= mergeResult[i].score

\* A merge that truncated a result holding a vector-only, a graph-only and
\* a hybrid chunk.
C6_Witness ==
    /\ mergePc = "done"
    /\ 0 < max_results /\ max_results < Cardinality(InputIds)
    /\ \E id \in InputIds : InBoth(id)
    /\ \E id \in InputIds : VectorOnly(id)
    /\ \E id \in InputIds : GraphOnly(id)
    /\ Omitted # {}

(***************************************************************************)
(* Claims about store_entities_in_neo4j (SpecGraph)                        *)
(***************************************************************************)
EntityKey(n) == <<n.normalized_name, n.type>>
NodesOfKey(nodes, key) == {n \in nodes : EntityKey(n) = key}
IsStoreCall == lastOp = NoOp /\ lastOp'.op = "store_entities_in_neo4j"

C8_RelationsWithinChunkEntities ==
    [][IsStoreCall =>
        LET keys == {EntityKey(lastOp'.entities[i]) : i \in 1..Len(lastOp'.entities)}
        IN  \A r \in relatesTo' \ relatesTo :
                \A n \in entityNodes' :
                    n.nid \in {r.from, r.to} => EntityKey(n) \in keys
      ]_vars

(***************************************************************************)
(* Claims about normalize_entity_name (SpecNorm)                           *)
(***************************************************************************)
\* C9: normalize_entity_name is idempotent:
\* normalize(normalize(x)) = normalize(x) for every name x.
C9_NormalizeIdempotent ==
    normPc = "done" => normTwice = normOnce

(***************************************************************************)
(* Claims about the progress record (SpecPipe)                             *)
(***************************************************************************)
StatusOrder ==
    <<"pending", "extracting", "chunking", "embedding", "indexing",
      "extracting_entities", "completed">>
StageRank(status) == CHOOSE i \in 1..Len(StatusOrder) : StatusOrder[i] = status
IsStage(status) == \E i \in 1..Len(StatusOrder) : StatusOrder[i] = status

\* C10: every change of the record's status goes to the next stage of
\* pending, extracting, chunking, embedding, indexing, extracting_entities,
\* completed (from indexing to completed when entity extraction is disabled)
\* or from a stage before completed to failed; failed and completed are
\* never left.
C10_StatusLinear ==
    [][task'.status # task.status =>
        \/ /\ IsStage(task.status) /\ task.status # "completed"
           /\ task'.status = "failed"
        \/ /\ IsStage(task.status) /\ IsStage(task'.status)
           /\ \/ StageRank(task'.status) = StageRank(task.status) + 1
              \/ /\ ~GRAPHRAG_ENABLED
                 /\ task.status = "indexing" /\ task'.status = "completed"
      ]_vars

Terminal(status) == status \in {"completed", "failed"}

\* C11: while the record is not completed or failed, every write that does
\* not mark it failed leaves its progress percentage at least as high as it
\* was, whatever the order in which the chunk tasks complete.
C11_ProgressNonDecreasing ==
    [][(~Terminal(task.status) /\ task'.status # "failed")
          => task'.progress >= task.progress]_vars

\* Two chunk tasks of one batch have written their percentages while
\* another is still running.
C11_Witness ==
    /\ pipelinePc = "gather"
    /\ task.status = "extracting_entities"
    /\ task.progress > ChunkProgress(1, Len(chunk_data))
    /\ \E i \in 1..Len(chunkTask) : chunkTask[i] = "running"

\* C12: once the record is failed, no later step of the ingestion writes
\* the record or either store.
C12_FailureIsFinal ==
    [][task.status = "failed" =>
          /\ task' = task
          /\ UNCHANGED <<documents, chunkNodes, points, entityNodes, appearsIn,
                         relatesTo>>
      ]_vars

\* C13: while the chunk list is empty the embedding step is never reached
\* and neither store holds a record; when the pipeline has returned from the
\* empty-document branch the record is failed with its non-empty message.
C13_EmptyDocumentFails ==
    /\ chunk_data = <<>> =>
          /\ pipelinePc \notin {"pre_embed", "embed"}
          /\ documents = {} /\ chunkNodes = {} /\ points = {}
          /\ entityNodes = {} /\ appearsIn = {} /\ relatesTo = {}
    /\ pipelinePc = "returned" =>
          /\ task.status = "failed"
          /\ task.error = ErrEmpty /\ ErrEmpty # ""

\* The chunker returned no chunks and the pipeline has returned.
C13_Witness ==
    /\ pipelinePc = "returned"
    /\ chunk_data = <<>>
    /\ task.status = "failed"

InFlight == Cardinality({i \in 1..Len(chunkTask) : chunkTask[i] = "running"})

C18_ExpansionCapped ==
    lastOp.op = "expand_graph_context" =>
        /\ Cardinality(lastOp.context.entity_relations) <= EXPAND_CAP
        /\ EXPAND_CAP = 15

\* The chunk's entities yield more tuples than the cap and the context
\* holds exactly the cap.
C18_Witness ==
    /\ lastOp.op = "expand_graph_context"
    /\ Cardinality(MultiHopTuples(lastOp.chunk_id)) > EXPAND_CAP
    /\ Cardinality(lastOp.context.entity_relations) = EXPAND_CAP

SiblingIds(chunk_id) ==
    {c.id : c \in {x \in chunkNodes :
        /\ x.id # chunk_id
        /\ \E d \in ContainingDocuments(chunk_id) : x.document_id = d.id}}

\* C19: for a chunk under a document, with no Entity node attached and with
\* sibling chunks, the returned context lists sibling chunks in
\* related_chunks.
C19_SiblingFallback ==
    (/\ lastOp.op = "expand_graph_context"
     /\ ContainingDocuments(lastOp.chunk_id) # {}
     /\ ~\E r \in appearsIn : r.to = lastOp.chunk_id
     /\ SiblingIds(lastOp.chunk_id) # {}) =>
        /\ lastOp.context.related_chunks # {}
        /\ lastOp.context.related_chunks \subseteq SiblingIds(lastOp.chunk_id)

(***************************************************************************)
(* Claims about concurrent ingestion (SpecConcurrent)                      *)
(***************************************************************************)
AllDone == \A w \in Workers : workers[w].pc = "done"
KeyOfNid(g, nid) == EntityKey(CHOOSE n \in g.entityNodes : n.nid = nid)

\* A graph without its internal ids.
Content(g) ==
    [nodes |-> {<<n.normalized_name, n.type, n.name>> : n \in g.entityNodes},
     count |-> Cardinality(g.entityNodes),
     appears |-> {<<KeyOfNid(g, r.from), r.to>> : r \in g.appearsIn},
     relates |-> {<<KeyOfNid(g, r.from), KeyOfNid(g, r.to), r.type>> : r \in g.relatesTo}]

\* C20: the two ingestions write different Document, Chunk and point keys,
\* and when both are done the graph has one Entity node per
\* (normalized_name, type) and is the graph of one of the two sequential
\* runs.
C20_ConcurrentIngestSerial ==
    /\ WorkerDocument(1).id # WorkerDocument(2).id
    /\ WorkerChunk(1).id # WorkerChunk(2).id
    /\ AllDone =>
          /\ \A a, b \in entityNodes : EntityKey(a) = EntityKey(b) => a = b
          /\ Content(Graph) \in {Content(SequentialGraph(1, 2)),
                                 Content(SequentialGraph(2, 1))}

(***************************************************************************)
(* Claims about the two stores after an ingestion (SpecPipe)               *)
(***************************************************************************)
PointsOf(document_id) == {p \in points : p.document_id = document_id}
ChunksOf(document_id) == {c \in chunkNodes : c.document_id = document_id}

\* C21: when the record is completed, the ids of the document's points are
\* the ids of the Chunk nodes of its Document node, and every such point
\* carries the owner of the Document node.
C21_StoresAgreeWhenCompleted ==
    task.status = "completed" =>
        /\ \E d \in documents : d.id = PipeDocumentId
        /\ {p.id : p \in PointsOf(PipeDocumentId)} = {c.id : c \in ChunksOf(PipeDocumentId)}
        /\ \A p \in PointsOf(PipeDocumentId), d \in documents :
              d.id = PipeDocumentId => p.user_id = d.user_id

\* A completed ingestion of a document of several chunks.
C21_Witness ==
    /\ task.status = "completed"
    /\ Cardinality(ChunksOf(PipeDocumentId)) >= 2
    /\ Cardinality(PointsOf(PipeDocumentId)) >= 2

\* C27: every tuple of a context returned for max_hops = h that names a
\* related entity has a hop_distance between 1 and h.
C27_HopsWithinLimit ==
    lastOp.op = "expand_graph_context" =>
        \A t \in lastOp.context.entity_relations :
            t.related_entity # NullName =>
                (1 <= t.hop_distance /\ t.hop_distance <= lastOp.max_hops)

OrphanedVectorIds ==
    {p.id : p \in {x \in points : \/ x.id \notin ChunkNodeIds
                                   \/ ~\E d \in documents : d.id = x.document_id}}

\* C28: the chunks retrieve_relevant_context returns never include a
\* vector record whose Chunk or Document is gone from the graph store.
C28_OrphanedVectorsInvisible ==
    (lastOp # NoOp /\ lastOp.op = "retrieve_relevant_context") =>
        \A i \in 1..Len(lastOp.chunks) : lastOp.chunks[i].id \notin OrphanedVectorIds

\* C29: after any sequence of ingestions, deletions and cleanup runs every
\* Entity node has an APPEARS_IN edge to a Chunk node that exists.
C29_EveryEntityHasChunk ==
    lastOp = NoOp =>
        \A n \in entityNodes :
            \E r \in appearsIn : r.from = n.nid /\ r.to \in ChunkNodeIds

(***************************************************************************)
(* Claims about authentication (SpecAuth)                                  *)
(***************************************************************************)
\* C22: a query request that carries a bearer token which does not
\* validate is answered with 401 or 403; it is not processed under any
\* identity.
C22_InvalidTokenRejected ==
    (/\ lastOp # NoOp
     /\ lastOp.op = "query_documents"
     /\ lastOp.tokens # {}
     /\ \A t \in lastOp.tokens : decode_access_token(t) = {}) =>
        lastOp.status_code \in {401, 403}

\* The responses given so far to the /refresh requests that presented
\* the token.
RefreshResponses(token) ==
    {i \in 1..Len(refreshReqs) :
        refreshReqs[i].pc = "done" /\ refreshReqs[i].token = token}

\* C24: of the /refresh requests that present one refresh token at most
\* one is answered with a new pair (200), and every other one with 401.
C24_RefreshTokenSingleUse ==
    \A token \in Presentable :
        /\ Cardinality({i \in RefreshResponses(token) :
                           refreshReqs[i].status_code = 200}) <= 1
        /\ \A i \in RefreshResponses(token) :
              refreshReqs[i].status_code \in {200, 401}

\* C25: while the blocklist holds the jti of a token, a request that
\* presents a token with that jti to an authenticated endpoint gets 401.
C25_BlocklistedTokenRejected ==
    (/\ lastOp # NoOp
     /\ lastOp.op = "get_current_user"
     /\ lastOp.jti \in blocklist) =>
        lastOp.status_code = 401

(***************************************************************************)
(* Claims about a deletion during the ingestion (SpecRace)                 *)
(***************************************************************************)
\* C30: once the delete request for document D has returned success and
\* the ingestion of D has stopped, neither store holds a vector, a Chunk
\* or a Document of D, and no Entity node is without an APPEARS_IN edge.
C30_DeleteDuringIngestLeavesNothing ==
    (/\ lastOp # NoOp
     /\ lastOp.op = "delete_document"
     /\ lastOp.deleted
     /\ workers[1].pc = "done") =>
        /\ PointsOf(lastOp.document_id) = {}
        /\ ChunksOf(lastOp.document_id) = {}
        /\ ~\E d \in documents : d.id = lastOp.document_id
        /\ \A n \in entityNodes : \E r \in appearsIn : r.from = n.nid

(***************************************************************************)
(* Claims about document deletion (SpecDelete)                             *)
(***************************************************************************)
\* The step is the response to a delete request for a document of somebody
\* else.
RejectedDelete ==
    /\ lastOp = NoOp
    /\ lastOp' # NoOp
    /\ lastOp'.op = "delete_document_endpoint"
    /\ \E d \in documents : d.id = lastOp'.document_id
                             /\ d.user_id # lastOp'.user_id

\* C23: a delete request for a document that the caller does not own is
\* answered with 404 (or 403), and the step leaves the vector store, the
\* graph store and the progress records as they were.
C23_ForeignDeleteChangesNothing ==
    [][RejectedDelete =>
          /\ "status_code" \in DOMAIN lastOp'
          /\ lastOp'.status_code \in {403, 404}
          /\ UNCHANGED <<points, documents, chunkNodes, graphVars, trackerKeys>>]_vars

\* A user has been refused the deletion of another tenant's document that
\* has a vector, a chunk and a progress record.
C23_Witness ==
    /\ lastOp # NoOp
    /\ lastOp.op = "delete_document_endpoint"
    /\ "status_code" \in DOMAIN lastOp
    /\ \E d \in documents :
          /\ d.id = lastOp.document_id /\ d.user_id # lastOp.user_id
          /\ d.id \in trackerKeys
          /\ \E p \in points : p.document_id = d.id
          /\ \E c \in chunkNodes : c.document_id = d.id

HasVector(chunk_id) == \E p \in points : p.id = chunk_id

\* C16: the graph deletion of a document is only ever made by a request
\* that has already deleted the document's vectors, and whenever a deletion
\* request has ended, however it ended, every Chunk node left in the graph
\* still has its vector.
C16_NoGraphMetadataWithoutVectors ==
    [][/\ (documents' # documents \/ chunkNodes' # chunkNodes) =>
              /\ lastOp # NoOp /\ lastOp.op = "delete_document_endpoint"
              /\ \A p \in points : p.document_id # lastOp.document_id
       /\ lastOp' = NoOp => \A c \in chunkNodes' : HasVector(c.id)'
      ]_vars

\* C17: delete_document removes an Entity node exactly when no chunk of
\* another document has an APPEARS_IN edge from it; every APPEARS_IN edge
\* to a chunk of another document is kept.
C17_EntityRemovedIffUnreferenced ==
    [][(lastOp'.op = "delete_document" /\ lastOp'.deleted) =>
        LET gone == {c.id : c \in {x \in chunkNodes :
                                      x.document_id = lastOp'.document_id}}
            kept == {r \in appearsIn : r.to \notin gone /\ r.to \in ChunkNodeIds}
        IN  /\ \A n \in entityNodes :
                  n \notin entityNodes' <=> ~\E r \in kept : r.from = n.nid
            /\ kept \subseteq appearsIn'
            /\ entityNodes' \subseteq entityNodes
      ]_vars

\* A deletion has removed an entity of the document and has kept another
\* one that a chunk of the other document references.
C17_Witness ==
    /\ lastOp.op = "delete_document"
    /\ lastOp.deleted
    /\ \E gone \in lastOp.entity_ids : \A n \in entityNodes : n.nid # gone
    /\ \E n \in entityNodes :
          /\ n.nid \in lastOp.entity_ids
          /\ \E r \in appearsIn : r.from = n.nid

=============================================================================
